---- MODULE Spec2Model ----
(***************************************************************************)
(* State-machine model of the RPi-AES67 endpoint: the RTP sender engine,   *)
(* the jitter buffer, the receiver engine and the NMOS IS-05 connection    *)
(* surface.                                                                *)
(*                                                                         *)
(* 32-bit RTP timestamps are kept at their real width.  A uint32_t value   *)
(* is written as a pair <<hi, lo>> of 16-bit limbs (value = hi*2^16 + lo)  *)
(* because the model checker's integers stop at 2^31 - 1.                  *)
(***************************************************************************)
EXTENDS Integers, Sequences, FiniteSets, TLC

VARIABLES
    \* ---- AES67Sender::Impl (src/src/sender.cpp) ----
    snd_initialized,   \* initialized_
    snd_running,       \* running_
    snd_state,         \* state_
    snd_socket,        \* socket_fd_ >= 0
    snd_stats,         \* stats_: sequence_number, rtp_timestamp, packets_sent, bytes_sent, underruns
    snd_cb,            \* the audio callback thread's position inside on_audio_data
    ptp_synchronized,  \* ptp_sync_ && ptp_sync_->is_synchronized()
    ptp_clock,         \* what ptp_sync_->get_rtp_timestamp(sample_rate) returns now
    wire,              \* packets put on the network since the last start()
    snd_budget,        \* packets the audio source may still deliver (bounds the run)
    snd_at_stop,       \* history: the counters as they were when stop() last returned
    \* ---- PTPSync::Impl (src/src/ptp_sync.cpp) ----
    ptp_conv,          \* a call of ptp_to_rtp_timestamp: its arguments and its result
    \* ---- SDPGenerator (src/src/sender.cpp), SDPParser (src/src/receiver.cpp) ----
    sdp_trip,          \* an SDP's way from the generator's inputs through the parser
    \* ---- JitterBuffer::Impl (src/src/receiver.cpp) ----
    jb_config,         \* config_: max_packets, target_delay_ms, min_delay_ms, max_delay_ms
    jb_packets,        \* packets_
    now,               \* std::chrono::steady_clock::now(), in milliseconds
    jb_pushed,         \* history: every packet pushed since construction or reset
    jb_popped,         \* history: the result of every successful pop since then
    jb_late_push,      \* history: some push happened after a successful pop
    \* ---- AES67Receiver::Impl (src/src/receiver.cpp) ----
    rx,                \* the engine: state_, connected_, running_, socket_fd_, threads, sdp_info_
    rx_stats,          \* stats_: packets_received, bytes_received, packets_lost, ...
    rx_last,           \* last_sequence_ and last_sequence_valid_
    net,               \* datagrams on their way to the receiver's socket, in arrival order
    rx_seen,           \* history: sequence numbers of the packets accepted so far
    rx_step,           \* history: what the latest process_rtp_packet call met and did
    calls,             \* number of control calls made so far (bounds the run)
    \* ---- NMOSNode::Impl (src/src/nmos_node.cpp) ----
    nmos_receiver_objects,  \* the keys of receiver_objects_
    nmos_staged,       \* staged_params_
    nmos_active,       \* active_params_
    last_op,           \* history: the latest control call, what it met and returned
    node,              \* state_, registered_, registry_url and the HTTP server threads
    mtx,               \* resources_mutex_ and the threads that work on the resource maps
    \* ---- threads at statement level ----
    cb_loop,           \* on_audio_data under a configuration: its locals in the packet loop
    thr                \* the receiver's receive and playout threads and a stop() in progress

ext_vars == <<node, mtx, cb_loop, thr>>

snd_vars == <<snd_initialized, snd_running, snd_state, snd_socket, snd_stats,
              snd_cb, ptp_synchronized, ptp_clock, wire, snd_budget, snd_at_stop,
              ptp_conv, sdp_trip, ext_vars>>

jb_vars == <<jb_config, jb_packets, now, jb_pushed, jb_popped, jb_late_push>>

rx_vars == <<rx, rx_stats, rx_last, net, rx_seen, rx_step, calls>>

nmos_vars == <<nmos_receiver_objects, nmos_staged, nmos_active, last_op>>

vars == <<snd_vars, jb_vars, rx_vars, nmos_vars>>

\* what the sender's actions leave alone
not_snd == <<jb_vars, rx_vars, nmos_vars, ptp_conv, sdp_trip, ext_vars>>

\* what the jitter buffer's own actions leave alone
not_jb == <<snd_vars, rx_vars, nmos_vars>>

\* the sender, the PTP conversion and the SDP round trip
sender_side == <<snd_initialized, snd_running, snd_state, snd_socket, snd_stats,
                 snd_cb, ptp_synchronized, ptp_clock, wire, snd_budget, snd_at_stop,
                 ptp_conv, sdp_trip>>

\* everything but node, mtx, cb_loop and thr
unextended == <<sender_side, jb_vars, rx_vars, nmos_vars>>

----------------------------------------------------------------------------
(* Fixed-width arithmetic *)

Mod16 == 2^16
Half16 == 2^15

\* static_cast<uint16_t>(n)
U16(n) == n % Mod16

\* the cast left out: the low 16 bits read as an unsigned number
I16_Unsigned(n) == U16(n)

\* static_cast<int16_t>(n): two's complement reading of the low 16 bits
I16(n) == IF U16(n) >= Half16 THEN U16(n) - Mod16 ELSE U16(n)

\* a uint32_t from a non-negative integer below 2^31
U32(n) == <<(n \div Mod16) % Mod16, n % Mod16>>

\* uint32_t a + n, n a non-negative integer below 2^31 (wraps at 2^32)
Add32(a, n) ==
    LET lo == a[2] + (n % Mod16)
        hi == a[1] + (n \div Mod16) + (lo \div Mod16)
    IN  <<hi % Mod16, lo % Mod16>>

\* uint32_t a - b (wraps at 2^32)
Sub32(a, b) ==
    LET lo == a[2] - b[2]
        borrow == IF lo < 0 THEN 1 ELSE 0
    IN  <<(a[1] - b[1] - borrow) % Mod16, lo % Mod16>>

\* a < b on uint32_t (the built-in unsigned comparison)
Less32(a, b) == a[1] < b[1] \/ (a[1] = b[1] /\ a[2] < b[2])

\* sizeof(RTPHeader)
RTPHeaderSize == 12

----------------------------------------------------------------------------
(* 64-bit arithmetic.  A number is a little-endian sequence of base-256     *)
(* digits; a uint64_t has eight of them.                                    *)

Base == 2^8

\* the len low digits of the non-negative integer n
Digits(n, len) ==
    [i \in 1..len |-> IF i = 1 THEN n % Base
                      ELSE IF i = 2 THEN (n \div Base) % Base
                      ELSE IF i = 3 THEN (n \div (Base * Base)) % Base
                      ELSE IF i = 4 THEN (n \div (Base * Base * Base)) % Base
                      ELSE 0]

RECURSIVE MulCarry(_, _, _)
\* x * k + carry, kept to the digits x has (the product wraps at Base^Len(x))
MulCarry(x, k, carry) ==
    IF x = <<>> THEN <<>>
    ELSE LET v == Head(x) * k + carry
         IN  <<v % Base>> \o MulCarry(Tail(x), k, v \div Base)

RECURSIVE DivRem(_, _)
\* quotient and remainder of x by the small divisor d (long division)
DivRem(x, d) ==
    IF x = <<>> THEN [q |-> <<>>, r |-> 0]
    ELSE LET hi == DivRem(Tail(x), d)
             cur == hi.r * Base + Head(x)
         IN  [q |-> <<cur \div d>> \o hi.q, r |-> cur % d]

\* x / 1000000000ULL: floor(floor(floor(x / 1000) / 1000) / 1000)
DivBillion(x) == DivRem(DivRem(DivRem(x, 1000).q, 1000).q, 1000).q

\* static_cast<uint32_t>(x), as the <<hi, lo>> pair of 16-bit limbs
Low32(x) == <<x[4] * Base + x[3], x[2] * Base + x[1]>>

\* a time of seconds s and nanoseconds ns as a count of nanoseconds, in len digits
Nanoseconds(seconds, nanos, len) ==
    MulCarry(MulCarry(MulCarry(Digits(seconds, len), 1000, 0), 1000, 0), 1000, nanos)

\* PTPSync::Impl::ptp_to_rtp_timestamp as the code computes it: the product is a
\* uint64_t and wraps at 2^64 before the division
ptp_to_rtp_timestamp(ptp_ns, sr) == Low32(DivBillion(MulCarry(ptp_ns, sr, 0)))

\* floor(ptp_ns * sr / 10^9) mod 2^32 with a product that cannot wrap
\* (three more digits than a uint64_t)
ExactRtpTimestamp(ptp_ns, sr) ==
    Low32(DivBillion(MulCarry(ptp_ns \o <<0, 0, 0>>, sr, 0)))

\* the supported sample rates
SampleRates == {44100, 48000, 96000}

\* times of day handed to the conversion, in seconds: the first seconds after
\* the clock's epoch, the seconds in which the product passes 2^64 at 96 kHz
\* and at 48 kHz and the seconds after them, and present-day system-clock time
PtpSeconds == {0, 1, 4, 192153, 192154, 384307, 384308, 1793000000, 1793000001}
PtpNanos == {0, 1, 500000000, 999999999}

PtpConvIdle == [seconds |-> 0, nanos |-> 0, sample_rate |-> 48000,
                done |-> FALSE, rtp_timestamp |-> U32(0)]

\* a caller hands get_current_time() and a sample rate to ptp_to_rtp_timestamp
PtpToRtpTimestamp ==
    /\ ~ptp_conv.done
    /\ ptp_conv' =
         [ptp_conv EXCEPT
            !.done = TRUE,
            !.rtp_timestamp =
                ptp_to_rtp_timestamp(
                    Nanoseconds(ptp_conv.seconds, ptp_conv.nanos, 8),
                    ptp_conv.sample_rate)]
    /\ UNCHANGED <<snd_initialized, snd_running, snd_state, snd_socket, snd_stats,
                   snd_cb, ptp_synchronized, ptp_clock, wire, snd_budget,
                   snd_at_stop, sdp_trip, ext_vars, jb_vars, rx_vars, nmos_vars>>

----------------------------------------------------------------------------
(* SDP text.  A std::string is a sequence of characters, each written as a  *)
(* one-character string, so that text can be taken apart and put together.  *)

CR == "\r"
LF == "\n"
CRLF == <<CR, LF>>

DigitChars == <<"0", "1", "2", "3", "4", "5", "6", "7", "8", "9">>

\* the character classes of the parser's regular expressions:
\* \d, \w, \s, \S, [0-9.] and [0-9A-Fa-f:-]
Digit == [chars |-> {DigitChars[i] : i \in 1..10}, negated |-> FALSE]
WordChar == [chars |-> Digit.chars \cup {"_"} \cup
                       {"a", "b", "c", "d", "e", "f", "g", "h", "i", "j", "k", "l", "m", "n", "o", "p", "q", "r", "s", "t", "u", "v", "w", "x", "y", "z",
                        "A", "B", "C", "D", "E", "F", "G", "H", "I", "J", "K", "L", "M", "N", "O", "P", "Q", "R", "S", "T", "U", "V", "W", "X", "Y", "Z"},
             negated |-> FALSE]
WhiteSpace == [chars |-> {" ", "\t", "\f", CR, LF}, negated |-> FALSE]
NonSpace == [WhiteSpace EXCEPT !.negated = TRUE]
AddressChar == [chars |-> Digit.chars \cup {"."}, negated |-> FALSE]
ClockIdChar == [chars |-> Digit.chars \cup {":", "-"} \cup {"A", "B", "C", "D", "E", "F", "a", "b", "c", "d", "e", "f"},
                negated |-> FALSE]

InClass(c, class) == (c \in class.chars) # class.negated

\* the items of a regular expression: a literal text, class+ and (class+)
Lit(text) == [kind |-> "lit", text |-> text]
Plus(class) == [kind |-> "plus", class |-> class, capture |-> FALSE]
Cap(class) == [kind |-> "plus", class |-> class, capture |-> TRUE]

\* the std::string of a character sequence
RECURSIVE Str(_)
Str(text) == IF text = <<>> THEN "" ELSE Head(text) \o Str(Tail(text))

\* operator<< of a non-negative integer
RECURSIVE Decimal(_)
Decimal(n) ==
    IF n < 10 THEN <<DigitChars[n + 1]>>
    ELSE Decimal(n \div 10) \o <<DigitChars[(n % 10) + 1]>>

\* std::stoi of a run of digits
RECURSIVE stoi(_)
stoi(text) ==
    IF text = <<>> THEN 0
    ELSE stoi(SubSeq(text, 1, Len(text) - 1)) * 10
         + ((CHOOSE i \in 1..10 : DigitChars[i] = text[Len(text)]) - 1)

\* line.substr(0, Len(prefix)) == prefix
HasPrefix(line, prefix) ==
    Len(line) >= Len(prefix) /\ SubSeq(line, 1, Len(prefix)) = prefix

\* text from position p to its end
Suffix(text, p) == SubSeq(text, p, Len(text))

\* line.find(text) != std::string::npos
Contains(line, text) == \E p \in 1..Len(line) : HasPrefix(Suffix(line, p), text)

\* the number of leading characters of text that are in class
RunLength(text, class) ==
    IF \E i \in 1..Len(text) : ~InClass(text[i], class)
    THEN (CHOOSE i \in 1..Len(text) :
             /\ ~InClass(text[i], class)
             /\ \A k \in 1..(i - 1) : InClass(text[k], class)) - 1
    ELSE Len(text)

NoMatch == [ok |-> FALSE, caps |-> <<>>]

RECURSIVE MatchAt(_, _)
\* a match of the whole pattern at the start of text: every class+ takes the
\* longest run that lets the rest of the pattern match (greedy, backtracking)
MatchAt(pattern, text) ==
    IF pattern = <<>> THEN [ok |-> TRUE, caps |-> <<>>]
    ELSE LET item == Head(pattern)
         IN  IF item.kind = "lit"
             THEN IF HasPrefix(text, item.text)
                  THEN MatchAt(Tail(pattern), Suffix(text, Len(item.text) + 1))
                  ELSE NoMatch
             ELSE LET good == {n \in 1..RunLength(text, item.class) :
                                  MatchAt(Tail(pattern), Suffix(text, n + 1)).ok}
                  IN  IF good = {} THEN NoMatch
                      ELSE LET n == CHOOSE m \in good : \A k \in good : k <= m
                               rest == MatchAt(Tail(pattern), Suffix(text, n + 1))
                           IN  [ok |-> TRUE,
                                caps |-> (IF item.capture
                                          THEN <<SubSeq(text, 1, n)>> ELSE <<>>)
                                         \o rest.caps]

\* std::regex_search: the match at the leftmost position that has one
regex_search(line, pattern) ==
    LET starts == {p \in 1..Len(line) : MatchAt(pattern, Suffix(line, p)).ok}
    IN  IF starts = {} THEN NoMatch
        ELSE MatchAt(pattern,
                     Suffix(line, CHOOSE p \in starts : \A q \in starts : p <= q))

\* o=\S+\s+(\d+)\s+\d+\s+IN\s+IP4\s+(\S+)
origin_regex ==
    <<Lit(<<"o", "=">>), Plus(NonSpace), Plus(WhiteSpace), Cap(Digit), Plus(WhiteSpace),
      Plus(Digit), Plus(WhiteSpace), Lit(<<"I", "N">>), Plus(WhiteSpace), Lit(<<"I", "P", "4">>),
      Plus(WhiteSpace), Cap(NonSpace)>>

\* c=IN\s+IP4\s+([0-9.]+)
conn_regex ==
    <<Lit(<<"c", "=", "I", "N">>), Plus(WhiteSpace), Lit(<<"I", "P", "4">>), Plus(WhiteSpace), Cap(AddressChar)>>

\* m=audio\s+(\d+)\s+RTP/AVP\s+(\d+)
media_regex ==
    <<Lit(<<"m", "=", "a", "u", "d", "i", "o">>), Plus(WhiteSpace), Cap(Digit), Plus(WhiteSpace),
      Lit(<<"R", "T", "P", "/", "A", "V", "P">>), Plus(WhiteSpace), Cap(Digit)>>

\* a=rtpmap:(\d+)\s+(\w+)/(\d+)/(\d+)
rtpmap_regex ==
    <<Lit(<<"a", "=", "r", "t", "p", "m", "a", "p", ":">>), Cap(Digit), Plus(WhiteSpace), Cap(WordChar), Lit(<<"/">>),
      Cap(Digit), Lit(<<"/">>), Cap(Digit)>>

\* ptp=IEEE1588-\d+:([0-9A-Fa-f:-]+)
ptp_regex ==
    <<Lit(<<"p", "t", "p", "=", "I", "E", "E", "E", "1", "5", "8", "8", "-">>), Plus(Digit), Lit(<<":">>), Cap(ClockIdChar)>>

\* AudioFormat{} and SDPInfo{}
DefaultFormat == [sample_rate |-> 48000, channels |-> 2, bit_depth |-> 24]
SDPInfoDefault ==
    [session_name |-> <<>>, session_id |-> <<>>, origin_address |-> <<>>,
     source_ip |-> <<>>, port |-> 0, payload_type |-> 0, format |-> DefaultFormat,
     encoding |-> <<>>, packet_time_us |-> 1000, ptp_clock_id |-> <<>>,
     is_valid |-> FALSE]

\* AudioFormat::encoding_name returning L24 for every bit depth
encoding_name_AlwaysL24(depth) == <<"L", "2", "4">>

\* AudioFormat::encoding_name
encoding_name(depth) ==
    CASE depth = 16 -> <<"L", "1", "6">>
      [] depth = 24 -> <<"L", "2", "4">>
      [] depth = 32 -> <<"L", "3", "2">>
      [] OTHER -> <<"L", "2", "4">>

\* AudioFormat::is_valid
format_is_valid(format) ==
    /\ format.sample_rate \in {44100, 48000, 96000}
    /\ format.channels # 0 /\ format.channels <= 64
    /\ format.bit_depth \in {16, 24, 32}

\* static_cast<uint32_t>(std::stod(text) * 1000) for a text of digits, with a
\* fraction of up to three digits after a point
PacketTimeUs(text) ==
    LET whole == RunLength(text, Digit)
        after == Suffix(text, whole + 1)
        frac == IF HasPrefix(after, <<".">>)
                THEN SubSeq(after, 2, 1 + RunLength(Suffix(after, 2), Digit))
                ELSE <<>>
        padded == SubSeq(frac \o <<"0", "0", "0">>, 1, 3)
    IN  stoi(SubSeq(text, 1, whole)) * 1000 + stoi(padded)

\* one turn of the loop of SDPParser::parse: what a line does to info
parse_line(info, raw) ==
    LET line == IF raw # <<>> /\ raw[Len(raw)] = CR
                THEN SubSeq(raw, 1, Len(raw) - 1) ELSE raw
    IN  IF line = <<>> THEN info
        ELSE IF HasPrefix(line, <<"s", "=">>)
        THEN [info EXCEPT !.session_name = Suffix(line, 3)]
        ELSE IF HasPrefix(line, <<"o", "=">>)
        THEN LET matches == regex_search(line, origin_regex)
             IN  IF matches.ok
                 THEN [info EXCEPT !.session_id = matches.caps[1],
                                   !.origin_address = matches.caps[2]]
                 ELSE info
        ELSE IF HasPrefix(line, <<"c", "=">>)
        THEN LET matches == regex_search(line, conn_regex)
             IN  IF matches.ok
                 THEN [info EXCEPT !.source_ip = matches.caps[1]]
                 ELSE info
        ELSE IF HasPrefix(line, <<"m", "=">>)
        THEN LET matches == regex_search(line, media_regex)
             IN  IF matches.ok
                 THEN [info EXCEPT !.port = stoi(matches.caps[1]) % Mod16,
                                   !.payload_type = stoi(matches.caps[2]) % Base]
                 ELSE info
        ELSE IF HasPrefix(line, <<"a", "=", "r", "t", "p", "m", "a", "p", ":">>)
        THEN LET matches == regex_search(line, rtpmap_regex)
             IN  IF matches.ok
                 THEN [info EXCEPT
                         !.encoding = matches.caps[2],
                         !.format =
                            [sample_rate |-> stoi(matches.caps[3]),
                             channels |-> stoi(matches.caps[4]) % Base,
                             bit_depth |->
                                CASE matches.caps[2] = <<"L", "1", "6">> -> 16
                                  [] matches.caps[2] = <<"L", "2", "4">> -> 24
                                  [] matches.caps[2] = <<"L", "3", "2">> -> 32
                                  [] OTHER -> info.format.bit_depth]]
                 ELSE info
        ELSE IF HasPrefix(line, <<"a", "=", "p", "t", "i", "m", "e", ":">>)
        THEN [info EXCEPT !.packet_time_us = PacketTimeUs(Suffix(line, 9))]
        ELSE IF HasPrefix(line, <<"a", "=", "t", "s", "-", "r", "e", "f", "c", "l", "k", ":">>)
        THEN LET matches == regex_search(line, ptp_regex)
             IN  IF Contains(line, <<"p", "t", "p", "=", "I", "E", "E", "E", "1", "5", "8", "8">>) /\ matches.ok
                 THEN [info EXCEPT !.ptp_clock_id = matches.caps[1]]
                 ELSE info
        ELSE info

RECURSIVE Lines(_)
\* the lines std::getline reads from the text
Lines(text) ==
    IF text = <<>> THEN <<>>
    ELSE LET k == IF \E i \in 1..Len(text) : text[i] = LF
                  THEN CHOOSE i \in 1..Len(text) :
                          text[i] = LF /\ \A j \in 1..(i - 1) : text[j] # LF
                  ELSE Len(text) + 1
         IN  <<SubSeq(text, 1, k - 1)>> \o Lines(Suffix(text, k + 1))

RECURSIVE parse_lines(_, _)
parse_lines(info, lines) ==
    IF lines = <<>> THEN info
    ELSE parse_lines(parse_line(info, Head(lines)), Tail(lines))

\* SDPParser::parse
parse(sdp) ==
    LET info == parse_lines(SDPInfoDefault, Lines(sdp))
    IN  [info EXCEPT !.is_valid = /\ info.source_ip # <<>>
                                  /\ info.port > 0
                                  /\ info.format.sample_rate > 0
                                  /\ info.format.channels > 0]

\* SDPGenerator::generate(multicast_ip, port, payload_type, format,
\* session_name, session_id, origin_address)
generate(multicast_ip, port, payload_type, format, session_name, session_id, origin_address) ==
    <<"v", "=", "0">> \o CRLF
    \o <<"o", "=", "-", " ">> \o Decimal(session_id) \o <<" ">> \o Decimal(session_id)
       \o <<" ", "I", "N", " ", "I", "P", "4", " ">> \o origin_address \o CRLF
    \o <<"s", "=">> \o session_name \o CRLF
    \o <<"c", "=", "I", "N", " ", "I", "P", "4", " ">> \o multicast_ip \o <<"/", "3", "2">> \o CRLF
    \o <<"t", "=", "0", " ", "0">> \o CRLF
    \o <<"m", "=", "a", "u", "d", "i", "o", " ">> \o Decimal(port) \o <<" ", "R", "T", "P", "/", "A", "V", "P", " ">> \o Decimal(payload_type) \o CRLF
    \o <<"a", "=", "r", "t", "p", "m", "a", "p", ":">> \o Decimal(payload_type) \o <<" ">> \o encoding_name(format.bit_depth)
       \o <<"/">> \o Decimal(format.sample_rate) \o <<"/">> \o Decimal(format.channels) \o CRLF
    \o <<"a", "=", "p", "t", "i", "m", "e", ":", "1">> \o CRLF
    \o <<"a", "=", "t", "s", "-", "r", "e", "f", "c", "l", "k", ":", "p", "t", "p", "=", "I", "E", "E", "E", "1", "5", "8", "8", "-", "2", "0", "0", "8">> \o CRLF
    \o <<"a", "=", "m", "e", "d", "i", "a", "c", "l", "k", ":", "d", "i", "r", "e", "c", "t", "=", "0">> \o CRLF

\* what the generator is given: the inputs of one generate call
GenInput(multicast_ip, port, payload_type, format, session_name, session_id, origin_address) ==
    [multicast_ip |-> multicast_ip, port |-> port, payload_type |-> payload_type,
     format |-> format, session_name |-> session_name, session_id |-> session_id,
     origin_address |-> origin_address]

generate_from(in) ==
    generate(in.multicast_ip, in.port, in.payload_type, in.format,
             in.session_name, in.session_id, in.origin_address)

\* every valid AudioFormat with 1, 2, 8 or 64 channels
Formats ==
    {f \in [sample_rate : SampleRates, channels : {1, 2, 8, 64},
            bit_depth : {16, 24, 32}] : format_is_valid(f)}

\* a standard AES67 stream: L24/48000/2 to 239.69.1.1:5004
StandardInput ==
    GenInput(<<"2", "3", "9", ".", "6", "9", ".", "1", ".", "1">>, 5004, 96, DefaultFormat, <<"S", "t", "u", "d", "i", "o", " ", "A">>, 1, <<"1", "9", "2", ".", "1", "6", "8", ".", "1", ".", "1", "0">>)

\* the generator inputs tried: the standard stream in every format, and the
\* default format with every combination of addresses, ports in 1..65535,
\* dynamic payload types, session names (empty, with a space, looking like a
\* c= line), session ids and origin addresses
SdpInputs ==
    {[StandardInput EXCEPT !.format = f] : f \in Formats}
    \cup {GenInput(ip, port, pt, DefaultFormat, name, id, origin) :
            ip \in {<<"2", "3", "9", ".", "6", "9", ".", "1", ".", "1">>, <<"2", "3", "9", ".", "2", "5", "5", ".", "2", "5", "5", ".", "2", "5", "0">>},
            port \in {1, 5004, Mod16 - 1},
            pt \in {96, 127},
            name \in {<<>>, <<"S", "t", "u", "d", "i", "o", " ", "A">>, <<"c", "=", "I", "N", " ", "I", "P", "4", " ", "1", "0", ".", "0", ".", "0", ".", "1">>},
            id \in {0, 1234567890},
            origin \in {<<"0", ".", "0", ".", "0", ".", "0">>, <<"1", "9", "2", ".", "1", "6", "8", ".", "1", ".", "1", "0">>}}

\* no SDP has been generated
SdpTripIdle == [stage |-> "idle", input |-> StandardInput,
                first |-> SDPInfoDefault, second |-> SDPInfoDefault]

\* a sender's SDP is generated and a receiver parses it
SdpGenerateParse ==
    /\ sdp_trip.stage = "input"
    /\ sdp_trip' = [sdp_trip EXCEPT
                      !.stage = "parsed",
                      !.first = parse(generate_from(sdp_trip.input))]
    /\ UNCHANGED <<snd_initialized, snd_running, snd_state, snd_socket, snd_stats,
                   snd_cb, ptp_synchronized, ptp_clock, wire, snd_budget,
                   snd_at_stop, ptp_conv, ext_vars, jb_vars, rx_vars, nmos_vars>>

\* the SDP is generated again from the parsed fields and parsed again
SdpRegenerateParse ==
    /\ sdp_trip.stage = "parsed"
    /\ sdp_trip.first.session_id # <<>>
    /\ LET info == sdp_trip.first
       IN  sdp_trip' =
             [sdp_trip EXCEPT
                !.stage = "reparsed",
                !.second = parse(generate(info.source_ip, info.port,
                                          info.payload_type, info.format,
                                          info.session_name, stoi(info.session_id),
                                          info.origin_address))]
    /\ UNCHANGED <<snd_initialized, snd_running, snd_state, snd_socket, snd_stats,
                   snd_cb, ptp_synchronized, ptp_clock, wire, snd_budget,
                   snd_at_stop, ptp_conv, ext_vars, jb_vars, rx_vars, nmos_vars>>

----------------------------------------------------------------------------
(* Bounds of the exploration *)

MaxWire == 3          \* audio delivered to the sender per run, in packets
MaxPush == 4          \* pushes into the jitter buffer per run
MaxTime == 2          \* milliseconds of steady-clock time per run
MaxCalls == 3         \* control calls (connect, start, stop, stage, activate, ...) per run

----------------------------------------------------------------------------
(* JitterBuffer *)

\* the literal 3 of pop's "packets_.size() < 3"
PrimingPackets == 3

\* the jitter buffer's Config as JitterBuffer(const Config&) receives it
JbMaxPackets == 3
JbTargetDelayMs == 2
JbMinDelayMs == 1

\* max_delay_ms as AES67Receiver::Impl::configure derives it from the target
JbMaxDelayMs == JbTargetDelayMs * 5

\* playout_loop's buffer, the max_size it passes to pop
PlayoutBufferSize == 8192

\* receive_loop's buffer, the largest datagram recv returns
ReceiveBufferSize == 65536

\* a payload of n bytes: the first n bytes of the byte string named tag
Payload(tag, n) == [tag |-> tag, size |-> n]

\* std::min(max_size, data.size()) bytes copied out of a stored payload
CopyOut(data, max_size) ==
    [data EXCEPT !.size = IF max_size < @ THEN max_size ELSE @]

\* the iterator the insertion loop of push stops at: the first element whose
\* timestamp is not below the new one under the built-in uint32_t comparison
InsertPosition(packets, timestamp) ==
    IF \E i \in 1..Len(packets) : ~Less32(packets[i].timestamp, timestamp)
    THEN CHOOSE i \in 1..Len(packets) :
            /\ ~Less32(packets[i].timestamp, timestamp)
            /\ \A k \in 1..(i - 1) : Less32(packets[k].timestamp, timestamp)
    ELSE Len(packets) + 1

\* std::vector::insert before position pos
InsertAt(packets, pos, pkt) ==
    SubSeq(packets, 1, pos - 1) \o <<pkt>> \o SubSeq(packets, pos, Len(packets))

\* push without the eviction of its first lines
PushResult_NoEviction(packets, config, pkt) ==
    InsertAt(packets, InsertPosition(packets, pkt.timestamp), pkt)

\* JitterBuffer::Impl::push, the new value of packets_
PushResult(packets, config, pkt) ==
    LET kept == IF Len(packets) >= config.max_packets /\ Len(packets) > 0
                THEN Tail(packets) ELSE packets
    IN  InsertAt(kept, InsertPosition(kept, pkt.timestamp), pkt)

\* JitterBuffer::Impl::pop: whether it returns true now
PopPermitted(packets, config, t) ==
    /\ Len(packets) > 0
    /\ ~(t - packets[1].arrival_time < config.target_delay_ms
         /\ Len(packets) < PrimingPackets)

JitterBufferIdle ==
    /\ jb_config = [max_packets |-> JbMaxPackets, target_delay_ms |-> JbTargetDelayMs,
                    min_delay_ms |-> JbMinDelayMs, max_delay_ms |-> JbMaxDelayMs]
    /\ jb_packets = <<>>
    /\ now = 0
    /\ jb_pushed = <<>>
    /\ jb_popped = <<>>
    /\ jb_late_push = FALSE

\* JitterBuffer::push(data, size, sequence, timestamp)
JitterBufferPush(data, sequence, timestamp) ==
    LET pkt == [data |-> data, sequence |-> sequence, timestamp |-> timestamp,
                arrival_time |-> now]
    IN  /\ jb_packets' = PushResult(jb_packets, jb_config, pkt)
        /\ jb_pushed' = Append(jb_pushed, pkt)
        /\ jb_late_push' = (jb_late_push \/ Len(jb_popped) > 0)
        /\ UNCHANGED <<jb_config, now, jb_popped>>

\* JitterBuffer::pop(data, max_size, size, timestamp); a pop that returns false
\* changes nothing
JitterBufferPop(max_size) ==
    /\ PopPermitted(jb_packets, jb_config, now)
    /\ jb_popped' = Append(jb_popped,
                           [data |-> CopyOut(jb_packets[1].data, max_size),
                            timestamp |-> jb_packets[1].timestamp,
                            max_size |-> max_size])
    /\ jb_packets' = Tail(jb_packets)
    /\ UNCHANGED <<jb_config, now, jb_pushed, jb_late_push>>

\* JitterBuffer::Impl::reset
JitterBufferReset ==
    /\ jb_packets' = <<>>
    /\ jb_pushed' = <<>>
    /\ jb_popped' = <<>>
    /\ jb_late_push' = FALSE
    /\ UNCHANGED <<jb_config, now>>

\* a millisecond passes on the steady clock
Tick ==
    /\ now < MaxTime
    /\ now' = now + 1
    /\ UNCHANGED <<jb_config, jb_packets, jb_pushed, jb_popped, jb_late_push>>

\* the packets offered to the buffer: a stream of 48-sample packets whose
\* timestamps cross 2^32 - 1 -> 0, one timestamp carried by two packets, and
\* one payload of 48 samples x 64 channels x 3 bytes
JbInputs ==
    { [data |-> Payload("a", 288),  sequence |-> 65535, timestamp |-> <<Mod16 - 1, Mod16 - 48>>],
      [data |-> Payload("b", 288),  sequence |-> 0,     timestamp |-> U32(0)],
      [data |-> Payload("c", 288),  sequence |-> 1,     timestamp |-> U32(48)],
      [data |-> Payload("d", 9216), sequence |-> 2,     timestamp |-> U32(48)] }

\* the buffer sizes a caller passes to pop
PopSizes == {PlayoutBufferSize, ReceiveBufferSize}

JbNext ==
    \/ /\ Len(jb_pushed) < MaxPush
       /\ \E p \in JbInputs : JitterBufferPush(p.data, p.sequence, p.timestamp)
       /\ UNCHANGED not_jb
    \/ /\ \E m \in PopSizes : JitterBufferPop(m)
       /\ UNCHANGED not_jb
    \/ /\ jb_pushed # <<>>
       /\ JitterBufferReset
       /\ UNCHANGED not_jb
    \/ Tick /\ UNCHANGED not_jb

----------------------------------------------------------------------------
(* Receiver engine *)

\* JitterBuffer::Config defaults, the configuration a receiver's buffer has
DefaultMaxPackets == 1000
DefaultTargetDelayMs == 10
DefaultMinDelayMs == 5

\* the Config of the receiver's buffer: configure(config, audio_config) with
\* the AudioProcessingConfig defaults, and max_packets left at its default
ReceiverJbConfig ==
    [max_packets |-> DefaultMaxPackets, target_delay_ms |-> DefaultTargetDelayMs,
     min_delay_ms |-> DefaultMinDelayMs,
     max_delay_ms |-> DefaultTargetDelayMs * 5]

\* the engine after construction and initialize().  threads counts the
\* receive/playout thread pairs that are running (joinable); leaked counts
\* sockets that are open but no longer referenced by socket_fd_; trail lists
\* the values assigned to state_ during the current call.
RxFresh ==
    [state |-> "Stopped", connected |-> FALSE, running |-> FALSE,
     socket_open |-> FALSE, socket_port |-> 0, leaked |-> 0, threads |-> 0,
     source_ip |-> "", port |-> 0, terminated |-> FALSE, trail |-> <<>>,
     group |-> "none"]

\* the first octet of inet_addr(ip); a string that is no address gives
\* INADDR_NONE, 255.255.255.255
FirstOctet(ip) ==
    CASE ip = "239.69.1.1" -> 239
      [] ip = "192.168.1.10" -> 192
      [] OTHER -> 255

\* connect_internal: (ip & 0xF0000000) == 0xE0000000
IsMulticast(ip) == FirstOctet(ip) \div 16 = 14

\* connect_internal: socket_ok, bind_ok and join_ok are the results of socket(),
\* bind() and setsockopt(IP_ADD_MEMBERSHIP).  socket_fd_ is overwritten without
\* closing the descriptor it held.  group tells whether the socket is a member
\* of the multicast group: "none" (no group asked for), "joined" or "failed".
connect_internal(e, socket_ok, bind_ok, join_ok) ==
    LET lost_fd == IF e.socket_open THEN 1 ELSE 0
    IN  IF ~socket_ok \/ ~bind_ok
        THEN [ok |-> FALSE,
              e |-> [e EXCEPT !.socket_open = FALSE, !.leaked = @ + lost_fd,
                              !.group = "none"]]
        ELSE [ok |-> TRUE,
              e |-> [e EXCEPT !.socket_open = TRUE, !.socket_port = e.port,
                              !.leaked = @ + lost_fd, !.connected = TRUE,
                              !.group = IF ~IsMulticast(e.source_ip) THEN "none"
                                        ELSE IF join_ok THEN "joined" ELSE "failed",
                              !.state = "Listening",
                              !.trail = Append(@, "Listening")]]

\* AES67Receiver::Impl::connect(source_ip, port, format)
connect(e, source_ip, port, socket_ok, bind_ok, join_ok) ==
    connect_internal([e EXCEPT !.source_ip = source_ip, !.port = port],
                     socket_ok, bind_ok, join_ok)

\* AES67Receiver::Impl::connect(sdp), info being SDPParser::parse(sdp):
\* sdp_info_ is overwritten before it is tested
connect_sdp(e, info, socket_ok, bind_ok, join_ok) ==
    LET parsed == [e EXCEPT !.source_ip = Str(info.source_ip), !.port = info.port]
    IN  IF ~info.is_valid THEN [ok |-> FALSE, e |-> parsed]
        ELSE connect_internal(parsed, socket_ok, bind_ok, join_ok)

RECURSIVE Unlines(_)
\* the text whose lines are the given ones
Unlines(lines) ==
    IF lines = <<>> THEN <<>> ELSE Head(lines) \o <<LF>> \o Unlines(Tail(lines))

\* text without the lines that begin with prefix
WithoutLine(text, prefix) ==
    LET keep(line) == ~HasPrefix(line, prefix)
    IN  Unlines(SelectSeq(Lines(text), keep))

\* the SDPs handed to connect(sdp): the standard stream's SDP as generated,
\* and the same text without its c= line, its a=rtpmap line, its m= line
SdpOfferKinds == {"standard", "no c=", "no a=rtpmap", "no m="}
SdpOffer(kind) ==
    CASE kind = "standard" -> generate_from(StandardInput)
      [] kind = "no c=" -> WithoutLine(generate_from(StandardInput), <<"c", "=">>)
      [] kind = "no a=rtpmap" -> WithoutLine(generate_from(StandardInput), <<"a", "=", "r", "t", "p", "m", "a", "p", ":">>)
      [] kind = "no m=" -> WithoutLine(generate_from(StandardInput), <<"m", "=">>)

\* SDPParser::parse of each of them
ParsedOffer == [kind \in SdpOfferKinds |-> parse(SdpOffer(kind))]

\* start without its first test: a receiver that is not connected is started
start_NoConnectCheck(e, sink_ok) ==
    IF e.state = "Receiving" THEN [ok |-> TRUE, e |-> e]
    ELSE IF ~sink_ok THEN [ok |-> FALSE, e |-> e]
    ELSE [ok |-> TRUE,
          e |-> [e EXCEPT !.running = TRUE, !.threads = 1, !.state = "Receiving",
                          !.trail = Append(@, "Receiving")]]

\* AES67Receiver::Impl::start: sink_ok is the result of audio_sink_->open.
\* Assigning a new std::thread to receive_thread_ while it is joinable calls
\* std::terminate.
start(e, sink_ok) ==
    IF ~e.connected THEN [ok |-> FALSE, e |-> e]
    ELSE IF e.state = "Receiving" THEN [ok |-> TRUE, e |-> e]
    ELSE IF ~sink_ok THEN [ok |-> FALSE, e |-> e]
    ELSE IF e.threads > 0
         THEN [ok |-> FALSE, e |-> [e EXCEPT !.running = TRUE, !.terminated = TRUE]]
         ELSE [ok |-> TRUE,
               e |-> [e EXCEPT !.running = TRUE, !.threads = 1,
                               !.state = "Receiving",
                               !.trail = Append(@, "Receiving")]]

\* AES67Receiver::Impl::stop; reset tells whether jitter_buffer_->reset() ran
stop(e) ==
    IF e.state # "Receiving" THEN [reset |-> FALSE, e |-> e]
    ELSE [reset |-> TRUE,
          e |-> [e EXCEPT !.running = FALSE, !.threads = 0,
                          !.state = "Listening",
                          !.trail = Append(@, "Listening")]]

\* AES67Receiver::Impl::disconnect
disconnect(e) ==
    LET s == stop(e)
    IN  [reset |-> s.reset,
         e |-> [s.e EXCEPT !.socket_open = FALSE, !.group = "none",
                           !.connected = FALSE,
                           !.state = "Stopped",
                           !.trail = Append(@, "Stopped")]]

\* AES67Receiver::Impl::recover: stop(), 100 ms of sleep, start()
recover(e, sink_ok) ==
    LET s == stop(e)
    IN  [reset |-> s.reset, e |-> start(s.e, sink_ok).e]

\* the 5 of is_healthy's "elapsed < 5", in seconds
HealthyWindowSeconds == 5

\* AES67Receiver::Impl::is_healthy; elapsed_s is now - stats_.last_packet_time
\* in whole seconds
is_healthy(e, elapsed_s) ==
    IF e.state # "Receiving" THEN TRUE ELSE elapsed_s < HealthyWindowSeconds

\* the datagrams of a well-formed 48 kHz stereo L24 stream: RTP version 2, no
\* CSRC, no extension, 288 payload bytes, the timestamp 48 samples per packet
Datagram(sequence) ==
    [v |-> 2, cc |-> 0, x |-> 0, ext_length |-> 0,
     size |-> RTPHeaderSize + 288, sequence |-> sequence,
     timestamp |-> U32(sequence * 48), tag |-> sequence]

\* the header size without the extension's share
HeaderSize_NoExtension(d) == RTPHeaderSize + d.cc * 4

\* process_rtp_packet: the size of the header the datagram declares
HeaderSize(d) ==
    RTPHeaderSize + d.cc * 4 + (IF d.x = 1 THEN 4 + d.ext_length * 4 ELSE 0)

\* process_rtp_packet: the datagram passes every early return
Accepted(d) ==
    /\ d.size >= RTPHeaderSize
    /\ d.v = 2
    /\ (d.x = 1 => d.size >= RTPHeaderSize + d.cc * 4 + 4)
    /\ d.size > HeaderSize(d)

\* process_rtp_packet: the number of leading bytes of the datagram that the
\* call reads: the fixed header, then the extension's first word, then the
\* payload handed to push
ReadExtent(d) ==
    IF d.size < RTPHeaderSize THEN 0
    ELSE IF d.v # 2 THEN RTPHeaderSize
    ELSE IF d.x = 1 /\ d.size < RTPHeaderSize + d.cc * 4 + 4 THEN RTPHeaderSize
    ELSE IF d.size <= HeaderSize(d)
         THEN IF d.x = 1 THEN RTPHeaderSize + d.cc * 4 + 4 ELSE RTPHeaderSize
    ELSE HeaderSize(d) + (d.size - HeaderSize(d))

\* process_rtp_packet: int16_t diff = static_cast<int16_t>(sequence - last_sequence_ - 1)
SequenceDiff(sequence, last_sequence) == I16(sequence - last_sequence - 1)

\* process_rtp_packet: what the loss check adds to packets_lost
LostDelta(diff) == IF diff > 0 THEN diff ELSE 0

\* process_rtp_packet: what the loss check adds to packets_out_of_order
OutOfOrderDelta(diff) == IF diff <= 0 /\ diff < -1 THEN 1 ELSE 0

RxStatsZero ==
    [packets_received |-> 0, bytes_received |-> 0, last_sequence_number |-> 0,
     last_rtp_timestamp |-> U32(0), packets_lost |-> 0, packets_out_of_order |-> 0,
     overruns |-> 0]

RxStepNone ==
    [accepted |-> FALSE, had_prev |-> FALSE, prev |-> 0, sequence |-> 0,
     lost_before |-> 0, out_of_order_before |-> 0]

ReceiverIdle ==
    /\ rx = RxFresh
    /\ rx_stats = RxStatsZero
    /\ rx_last = [sequence |-> 0, valid |-> FALSE]
    /\ net = <<>>
    /\ rx_seen = <<>>
    /\ rx_step = RxStepNone
    /\ calls = 0

\* AES67Receiver::Impl::process_rtp_packet(data, size)
process_rtp_packet(d) ==
    IF ~Accepted(d)
    THEN /\ rx_step' = RxStepNone
         /\ UNCHANGED <<jb_vars, rx_stats, rx_last, rx_seen>>
    ELSE LET diff == SequenceDiff(d.sequence, rx_last.sequence)
         IN  /\ JitterBufferPush(Payload(d.tag, d.size - HeaderSize(d)),
                                 d.sequence, d.timestamp)
             /\ rx_stats' =
                  [rx_stats EXCEPT
                     !.packets_received = @ + 1,
                     !.bytes_received = @ + d.size,
                     !.last_sequence_number = d.sequence,
                     !.last_rtp_timestamp = d.timestamp,
                     !.packets_lost =
                         IF rx_last.valid THEN @ + LostDelta(diff) ELSE @,
                     !.packets_out_of_order =
                         IF rx_last.valid THEN @ + OutOfOrderDelta(diff) ELSE @]
             /\ rx_last' = [sequence |-> d.sequence, valid |-> TRUE]
             /\ rx_seen' = Append(rx_seen, d.sequence)
             /\ rx_step' = [accepted |-> TRUE, had_prev |-> rx_last.valid,
                            prev |-> rx_last.sequence, sequence |-> d.sequence,
                            lost_before |-> rx_stats.packets_lost,
                            out_of_order_before |-> rx_stats.packets_out_of_order]

\* receive_loop, one turn: poll and recv deliver the next datagram
ReceiveLoop ==
    /\ rx.threads > 0 /\ rx.running /\ rx.socket_open /\ ~rx.terminated
    /\ net # <<>>
    /\ process_rtp_packet(Head(net))
    /\ net' = Tail(net)
    /\ UNCHANGED <<rx, calls, snd_vars, nmos_vars>>

\* playout_loop, one turn in which pop returns a packet
PlayoutLoop ==
    /\ rx.threads > 0 /\ rx.running /\ ~rx.terminated
    /\ JitterBufferPop(PlayoutBufferSize)
    /\ UNCHANGED <<rx_vars, snd_vars, nmos_vars>>

----------------------------------------------------------------------------
(* NMOS node: the IS-05 staged/active connection surface *)

\* TransportParams{}: the fields the connection path reads
DefaultParams == [source_ip |-> "", multicast_ip |-> "", destination_port |-> 0]

\* the transport parameters a controller sends
ParamValues ==
    { [source_ip |-> "", multicast_ip |-> "239.69.1.1", destination_port |-> 5004],
      [source_ip |-> "192.168.1.10", multicast_ip |-> "", destination_port |-> 5006],
      [source_ip |-> "", multicast_ip |-> "239.69.1.1", destination_port |-> 0] }

\* receiver ids a controller names: r1 is registered by the application, r2 is not
Ids == {"r1", "r2"}

\* std::map with no entry
EmptyMap == [id \in {} |-> DefaultParams]

\* std::map operator[] assignment: m[id] = params
MapPut(m, id, params) ==
    [k \in DOMAIN m \cup {id} |-> IF k = id THEN params ELSE m[k]]

\* activate_connection / connect_to_sender: the address handed to connect
SourceOf(params) ==
    IF params.multicast_ip = "" THEN params.source_ip ELSE params.multicast_ip

\* NMOSNode::Impl::get_staged_params
get_staged_params(id) ==
    IF id \in DOMAIN nmos_staged THEN nmos_staged[id] ELSE DefaultParams

\* NMOSNode::Impl::get_active_params
get_active_params(id) ==
    IF id \in DOMAIN nmos_active THEN nmos_active[id] ELSE DefaultParams

\* the HTTP exchange of a control call that is not an HTTP request
NoRequest == [method |-> "", path |-> <<>>, params |-> DefaultParams,
              activation_mode |-> "", body |-> ""]
NoResponse == [status |-> 0, body |-> ""]

\* the record kept of a control call.  success and error_message are the
\* returned ConnectionResponse (or the bool result); returned is FALSE when the
\* call never returned because the process was terminated inside it.
OpRecord(name, id, success, error_message, connect_failed, start_failed) ==
    [name |-> name, id |-> id, success |-> success,
     error_message |-> error_message, returned |-> TRUE,
     connect_failed |-> connect_failed, start_failed |-> start_failed,
     params |-> get_staged_params(id),
     state_before |-> rx.state, leaked_before |-> rx.leaked,
     engine_before |-> [rx EXCEPT !.trail = <<>>], elapsed_s |-> 0,
     staged_before |-> nmos_staged, active_before |-> nmos_active,
     request |-> NoRequest, response |-> NoResponse, sdp |-> ""]

NoOp == [name |-> "none", id |-> "", success |-> FALSE, error_message |-> "",
         returned |-> TRUE, connect_failed |-> FALSE, start_failed |-> FALSE,
         params |-> DefaultParams, state_before |-> "Stopped", leaked_before |-> 0,
         engine_before |-> RxFresh, elapsed_s |-> 0,
         staged_before |-> EmptyMap, active_before |-> EmptyMap,
         request |-> NoRequest, response |-> NoResponse, sdp |-> ""]

NmosIdle ==
    /\ nmos_receiver_objects = {"r1"}
    /\ nmos_staged = EmptyMap
    /\ nmos_active = EmptyMap
    /\ last_op = NoOp

\* every control call is counted, and none runs in a terminated process
ControlCall ==
    /\ ~rx.terminated
    /\ calls < MaxCalls
    /\ calls' = calls + 1

\* NMOSNode::Impl::stage_connection
StageConnection(id, params) ==
    /\ ControlCall
    /\ nmos_staged' = MapPut(nmos_staged, id, params)
    /\ last_op' = OpRecord("stage_connection", id, TRUE, "", FALSE, FALSE)
    /\ UNCHANGED <<nmos_receiver_objects, nmos_active, rx, rx_stats, rx_last, net,
                   rx_seen, rx_step, jb_vars, snd_vars>>

\* NMOSNode::Impl::activate_connection; socket_ok, bind_ok, join_ok and sink_ok
\* are the results of socket(), bind(), the multicast join and
\* audio_sink_->open inside the receiver
ActivateConnection(id, socket_ok, bind_ok, join_ok, sink_ok) ==
    /\ ControlCall
    /\ UNCHANGED <<nmos_receiver_objects, nmos_staged, rx_stats, rx_last, net,
                   rx_seen, rx_step, jb_vars, snd_vars>>
    /\ IF id \notin DOMAIN nmos_staged
       THEN /\ last_op' = OpRecord("activate_connection", id, FALSE,
                                   "No staged parameters", FALSE, FALSE)
            /\ UNCHANGED <<rx, nmos_active>>
       ELSE IF id \notin nmos_receiver_objects
       THEN /\ last_op' = OpRecord("activate_connection", id, FALSE,
                                   "Receiver not found", FALSE, FALSE)
            /\ UNCHANGED <<rx, nmos_active>>
       ELSE LET params == nmos_staged[id]
                c == connect([rx EXCEPT !.trail = <<>>], SourceOf(params),
                             params.destination_port, socket_ok, bind_ok, join_ok)
                s == start(c.e, sink_ok)
            IN  IF ~c.ok
                THEN /\ rx' = c.e
                     /\ last_op' = OpRecord("activate_connection", id, FALSE,
                                            "Failed to activate connection",
                                            TRUE, FALSE)
                     /\ UNCHANGED nmos_active
                ELSE IF s.e.terminated
                THEN /\ rx' = s.e
                     /\ last_op' =
                          [OpRecord("activate_connection", id, FALSE, "", FALSE, TRUE)
                             EXCEPT !.returned = FALSE]
                     /\ UNCHANGED nmos_active
                ELSE /\ rx' = s.e
                     /\ nmos_active' = MapPut(nmos_active, id, params)
                     /\ last_op' = OpRecord("activate_connection", id, TRUE, "",
                                            FALSE, ~s.ok)

\* NMOSNode::Impl::connect_to_sender
ConnectToSender(id, params, socket_ok, bind_ok, join_ok, sink_ok) ==
    /\ ControlCall
    /\ UNCHANGED <<nmos_receiver_objects, nmos_staged, nmos_active, rx_stats,
                   rx_last, net, rx_seen, rx_step, jb_vars, snd_vars>>
    /\ IF id \notin nmos_receiver_objects
       THEN /\ last_op' = OpRecord("connect_to_sender", id, FALSE,
                                   "Receiver not found", FALSE, FALSE)
            /\ UNCHANGED rx
       ELSE LET c == connect([rx EXCEPT !.trail = <<>>], SourceOf(params),
                             params.destination_port, socket_ok, bind_ok, join_ok)
                s == start(c.e, sink_ok)
            IN  IF ~c.ok
                THEN /\ rx' = c.e
                     /\ last_op' = OpRecord("connect_to_sender", id, FALSE,
                                            "Failed to connect", TRUE, FALSE)
                ELSE /\ rx' = s.e
                     /\ last_op' =
                          [OpRecord("connect_to_sender", id, ~s.e.terminated, "",
                                    FALSE, ~s.ok)
                             EXCEPT !.returned = ~s.e.terminated]

\* NMOSNode::Impl::disconnect_receiver
DisconnectReceiver(id) ==
    /\ ControlCall
    /\ UNCHANGED <<nmos_receiver_objects, nmos_staged, nmos_active, rx_stats,
                   rx_last, net, rx_seen, rx_step, snd_vars>>
    /\ IF id \notin nmos_receiver_objects
       THEN /\ last_op' = OpRecord("disconnect_receiver", id, FALSE, "", FALSE, FALSE)
            /\ UNCHANGED <<rx, jb_vars>>
       ELSE LET d == disconnect([rx EXCEPT !.trail = <<>>])
            IN  /\ rx' = d.e
                /\ IF d.reset THEN JitterBufferReset ELSE UNCHANGED jb_vars
                /\ last_op' = OpRecord("disconnect_receiver", id, TRUE, "", FALSE, FALSE)

\* the request paths, as their segments
NodeApiPrefix == <<"x-nmos", "node", "v1.3">>
ConnectionApiPrefix == <<"x-nmos", "connection", "v1.1">>

\* /x-nmos/connection/v1.1/single/receivers/{id}/{leaf}
ConnectionPath(id, leaf) == ConnectionApiPrefix \o <<"single", "receivers", id, leaf>>

\* the paths a client requests: the staged and active endpoints of each id,
\* the node API root, and a path outside both APIs
HttpPaths ==
    { ConnectionPath(id, leaf) : id \in Ids, leaf \in {"staged", "active"} }
    \cup { NodeApiPrefix, <<"index.html">> }

HttpMethods == {"GET", "PATCH"}

\* the activation descriptor of a PATCH body
ActivationModes == {"", "activate_immediate"}

\* path.find(prefix) == 0
StartsWith(path, prefix) ==
    /\ Len(path) >= Len(prefix)
    /\ SubSeq(path, 1, Len(prefix)) = prefix

\* path.find("/staged") != std::string::npos
HasStaged(path) == \E i \in 1..Len(path) : path[i] = "staged"

\* the JSON text a controller sends to stage params with an activation mode
PatchBody(params, activation_mode) ==
    "{\"destination_port\": " \o ToString(params.destination_port)
    \o ", \"multicast_ip\": \"" \o params.multicast_ip
    \o "\", \"source_ip\": \"" \o params.source_ip \o "\""
    \o (IF activation_mode = "" THEN ""
        ELSE ", \"activation_mode\": \"" \o activation_mode \o "\"")
    \o "}"

\* NMOSNode::Impl::handle_node_api for the API root and for unknown resources
handle_node_api(method, path) ==
    IF path = NodeApiPrefix
    THEN [status |-> 200,
          body |-> "[\"self/\", \"senders/\", \"receivers/\", \"devices/\", \"sources/\", \"flows/\"]"]
    ELSE [status |-> 404, body |-> ""]

\* NMOSNode::Impl::handle_connection_api: the request body is located and
\* then left unparsed
handle_connection_api(method, path, request) ==
    IF method = "PATCH" /\ HasStaged(path)
    THEN [status |-> 200, body |-> "{\"master_enable\": true}"]
    ELSE [status |-> 200, body |-> "{}"]

\* NMOSNode::Impl::handle_http_request: the response sent to the client
http_response(method, path, request) ==
    IF StartsWith(path, NodeApiPrefix) THEN handle_node_api(method, path)
    ELSE IF StartsWith(path, ConnectionApiPrefix)
    THEN handle_connection_api(method, path, request)
    ELSE [status |-> 404, body |-> ""]

\* the receiver id a connection path names ("" for other paths)
PathId(path) ==
    IF StartsWith(path, ConnectionApiPrefix) /\ Len(path) = 7 THEN path[6] ELSE ""

\* NMOSNode::Impl::handle_http_request serving one request of the HTTP server
\* loop; params and activation_mode are what the request body carries
HandleHttpRequest(method, path, params, activation_mode) ==
    /\ ControlCall
    /\ LET request == [method |-> method, path |-> path, params |-> params,
                       activation_mode |-> activation_mode,
                       body |-> PatchBody(params, activation_mode)]
           response == http_response(method, path, request.body)
       IN  last_op' =
             [OpRecord("handle_http_request", PathId(path), response.status = 200,
                       "", FALSE, FALSE)
                EXCEPT !.request = request, !.response = response]
    /\ UNCHANGED <<nmos_receiver_objects, nmos_staged, nmos_active, rx, rx_stats,
                   rx_last, net, rx_seen, rx_step, jb_vars, snd_vars>>

----------------------------------------------------------------------------
(* The receiver's public interface as the application calls it *)

\* AES67Receiver::connect(source_ip, port) called by the application
ReceiverConnect(source_ip, port, socket_ok, bind_ok, join_ok) ==
    /\ ControlCall
    /\ LET c == connect([rx EXCEPT !.trail = <<>>], source_ip, port,
                        socket_ok, bind_ok, join_ok)
       IN  /\ rx' = c.e
           /\ last_op' = OpRecord("connect", "", c.ok, "", ~c.ok, FALSE)
    /\ UNCHANGED <<rx_stats, rx_last, net, rx_seen, rx_step, jb_vars, snd_vars,
                   nmos_receiver_objects, nmos_staged, nmos_active>>

\* AES67Receiver::connect(sdp) called by the application with one of the SDPs
ReceiverConnectSdp(kind, socket_ok, bind_ok, join_ok) ==
    /\ ControlCall
    /\ LET c == connect_sdp([rx EXCEPT !.trail = <<>>], ParsedOffer[kind],
                            socket_ok, bind_ok, join_ok)
       IN  /\ rx' = c.e
           /\ last_op' = [OpRecord("connect_sdp", "", c.ok, "", ~c.ok, FALSE)
                            EXCEPT !.sdp = kind]
    /\ UNCHANGED <<rx_stats, rx_last, net, rx_seen, rx_step, jb_vars, snd_vars,
                   nmos_receiver_objects, nmos_staged, nmos_active>>

\* AES67Receiver::start called by the application
ReceiverStart(sink_ok) ==
    /\ ControlCall
    /\ LET r == start([rx EXCEPT !.trail = <<>>], sink_ok)
       IN  /\ rx' = r.e
           /\ last_op' = [OpRecord("start", "", r.ok, "", FALSE, ~r.ok)
                            EXCEPT !.returned = ~r.e.terminated]
    /\ UNCHANGED <<rx_stats, rx_last, net, rx_seen, rx_step, jb_vars, snd_vars,
                   nmos_receiver_objects, nmos_staged, nmos_active>>

\* AES67Receiver::stop called by the application
ReceiverStop ==
    /\ ControlCall
    /\ LET r == stop([rx EXCEPT !.trail = <<>>])
       IN  /\ rx' = r.e
           /\ IF r.reset THEN JitterBufferReset ELSE UNCHANGED jb_vars
    /\ last_op' = OpRecord("stop", "", TRUE, "", FALSE, FALSE)
    /\ UNCHANGED <<rx_stats, rx_last, net, rx_seen, rx_step, snd_vars,
                   nmos_receiver_objects, nmos_staged, nmos_active>>

\* AES67Receiver::disconnect called by the application
ReceiverDisconnect ==
    /\ ControlCall
    /\ LET d == disconnect([rx EXCEPT !.trail = <<>>])
       IN  /\ rx' = d.e
           /\ IF d.reset THEN JitterBufferReset ELSE UNCHANGED jb_vars
    /\ last_op' = OpRecord("disconnect", "", TRUE, "", FALSE, FALSE)
    /\ UNCHANGED <<rx_stats, rx_last, net, rx_seen, rx_step, snd_vars,
                   nmos_receiver_objects, nmos_staged, nmos_active>>

\* AES67Receiver::recover called by the application's monitor
ReceiverRecover(sink_ok) ==
    /\ ControlCall
    /\ LET r == recover([rx EXCEPT !.trail = <<>>], sink_ok)
       IN  /\ rx' = r.e
           /\ IF r.reset THEN JitterBufferReset ELSE UNCHANGED jb_vars
           /\ last_op' = [OpRecord("recover", "", TRUE, "", FALSE, FALSE)
                            EXCEPT !.returned = ~r.e.terminated]
    /\ UNCHANGED <<rx_stats, rx_last, net, rx_seen, rx_step, snd_vars,
                   nmos_receiver_objects, nmos_staged, nmos_active>>

\* seconds since stats_.last_packet_time that a health check may read
HealthElapsed == {0, HealthyWindowSeconds - 1, HealthyWindowSeconds,
                  HealthyWindowSeconds + 1}

\* AES67Receiver::is_healthy called by the application's monitor
ReceiverIsHealthy(elapsed_s) ==
    /\ ControlCall
    /\ last_op' = [OpRecord("is_healthy", "", is_healthy(rx, elapsed_s), "",
                            FALSE, FALSE)
                     EXCEPT !.elapsed_s = elapsed_s]
    /\ UNCHANGED <<rx, rx_stats, rx_last, net, rx_seen, rx_step, jb_vars, snd_vars,
                   nmos_receiver_objects, nmos_staged, nmos_active>>

----------------------------------------------------------------------------
(* The audio callback's packet loop under the configurations configure() takes *)

\* turns of the packet loop per callback
MaxTurns == 20

\* callbacks per run
MaxCallbacks == 2

\* configurations handed to configure(), which stores every one of them: the
\* SenderConfig defaults, the 125 us packet time, a 20 us packet time, a
\* configuration with no channel, 16-bit audio at 44.1 kHz, 4-bit samples
CallbackConfigs ==
    { [sample_rate |-> 48000, packet_time_us |-> 1000, channels |-> 2, bit_depth |-> 24],
      [sample_rate |-> 48000, packet_time_us |-> 125,  channels |-> 2, bit_depth |-> 24],
      [sample_rate |-> 48000, packet_time_us |-> 20,   channels |-> 2, bit_depth |-> 24],
      [sample_rate |-> 48000, packet_time_us |-> 1000, channels |-> 0, bit_depth |-> 24],
      [sample_rate |-> 44100, packet_time_us |-> 1000, channels |-> 2, bit_depth |-> 16],
      [sample_rate |-> 48000, packet_time_us |-> 1000, channels |-> 2, bit_depth |-> 4] }

\* the buffer sizes the audio source delivers, in bytes
CallbackSizes == {0, 288, 700}

\* on_audio_data: (config_.sample_rate * config_.packet_time_us) / 1000000
samples_per_packet_of(config) ==
    (config.sample_rate * config.packet_time_us) \div 1000000

\* on_audio_data: samples_per_packet * format_.bytes_per_frame()
bytes_per_packet_of(config) ==
    samples_per_packet_of(config) * ((config.bit_depth \div 8) * config.channels)

\* on_audio_data: while (remaining >= bytes_per_packet)
loop_continues(remaining, config) == remaining >= bytes_per_packet_of(config)

\* no callback is running; callbacks counts the calls of on_audio_data
CbLoopIdle(config) ==
    [pc |-> "idle", config |-> config, size |-> 0, remaining |-> 0, offset |-> 0,
     sent |-> 0, callbacks |-> 0]

\* on_audio_data is entered with a buffer of size bytes (running_ is true)
CallbackEnter(size) ==
    /\ cb_loop.pc \in {"idle", "returned"}
    /\ cb_loop.callbacks < MaxCallbacks
    /\ cb_loop' = [cb_loop EXCEPT !.pc = "loop", !.size = size,
                                  !.remaining = size, !.offset = 0, !.sent = 0,
                                  !.callbacks = @ + 1]
    /\ UNCHANGED <<node, mtx, thr>>

\* one turn of the packet loop: send_rtp_packet(data, bytes_per_packet, ...),
\* data += bytes_per_packet, remaining -= bytes_per_packet
CallbackTurn ==
    /\ cb_loop.pc = "loop"
    /\ loop_continues(cb_loop.remaining, cb_loop.config)
    /\ cb_loop.sent < MaxTurns
    /\ cb_loop' = [cb_loop EXCEPT
                     !.remaining = @ - bytes_per_packet_of(cb_loop.config),
                     !.offset = @ + bytes_per_packet_of(cb_loop.config),
                     !.sent = @ + 1]
    /\ UNCHANGED <<node, mtx, thr>>

\* the loop test fails and on_audio_data returns
CallbackReturn ==
    /\ cb_loop.pc = "loop"
    /\ ~loop_continues(cb_loop.remaining, cb_loop.config)
    /\ cb_loop' = [cb_loop EXCEPT !.pc = "returned"]
    /\ UNCHANGED <<node, mtx, thr>>

CallbackNext ==
    \/ \E size \in CallbackSizes : CallbackEnter(size) /\ UNCHANGED unextended
    \/ CallbackTurn /\ UNCHANGED unextended
    \/ CallbackReturn /\ UNCHANGED unextended

----------------------------------------------------------------------------
(* NMOSNode::Impl: start, stop and registration *)

\* calls made on the node per run
MaxNodeCalls == 5

\* the registry URLs of NetworkConfig and of enable_registration
RegistryUrls == {"", "http://registry.local:8235"}

\* the node after construction and initialize(config, network).  server_fd
\* tells whether server_fd_ is an open socket, leaked counts listening sockets
\* that are open but no longer referenced, server_threads counts the HTTP
\* server threads that run; started is history: start() returned true and
\* stop() has not been called since; last and result are history: the latest
\* call and what it returned.
NodeFresh ==
    [state |-> "Stopped", running |-> FALSE, registered |-> FALSE,
     registry_url |-> "", server_fd |-> FALSE, leaked |-> 0, server_threads |-> 0,
     terminated |-> FALSE, started |-> FALSE, calls |-> 0, last |-> "none",
     result |-> FALSE]

\* NMOSNode::Impl::is_running
is_running(n) == n.state = "Running"

\* NMOSNode::Impl::register_with_registry
register_with_registry(n) == [n EXCEPT !.registered = TRUE, !.state = "Registered"]

\* NMOSNode::Impl::start_http_server; http_ok tells whether socket(), bind()
\* and listen() all succeed.  server_fd_ is overwritten without closing the
\* socket it held, and assigning to server_thread_ while it is joinable calls
\* std::terminate.
start_http_server(n, http_ok) ==
    LET lost_fd == IF n.server_fd THEN 1 ELSE 0
    IN  IF ~http_ok
        THEN [ok |-> FALSE, n |-> [n EXCEPT !.server_fd = FALSE, !.leaked = @ + lost_fd]]
        ELSE [ok |-> TRUE,
              n |-> [n EXCEPT !.server_fd = TRUE, !.leaked = @ + lost_fd,
                              !.running = TRUE,
                              !.server_threads = IF @ > 0 THEN @ ELSE 1,
                              !.terminated = n.server_threads > 0]]

\* every call on the node is counted, and none runs in a terminated process
NodeCall ==
    /\ ~node.terminated
    /\ node.calls < MaxNodeCalls
    /\ UNCHANGED <<mtx, cb_loop, thr>>

\* NMOSNode::Impl::start
NodeStart(http_ok) ==
    /\ NodeCall
    /\ LET n == [node EXCEPT !.calls = @ + 1, !.last = "start", !.result = FALSE]
           h == start_http_server(n, http_ok)
           run == [h.n EXCEPT !.state = "Running", !.result = TRUE]
       IN  node' =
             IF n.state = "Running" THEN [n EXCEPT !.result = TRUE]
             ELSE IF ~h.ok THEN h.n
             ELSE IF h.n.terminated THEN h.n
             ELSE [(IF run.registry_url # "" THEN register_with_registry(run)
                    ELSE run) EXCEPT !.started = TRUE]

\* NMOSNode::Impl::stop
NodeStop ==
    /\ NodeCall
    /\ LET n == [node EXCEPT !.calls = @ + 1, !.started = FALSE, !.last = "stop",
                             !.result = TRUE]
       IN  node' =
             IF n.state = "Stopped" THEN n
             ELSE [n EXCEPT !.running = FALSE, !.registered = FALSE,
                            !.server_fd = FALSE, !.server_threads = 0,
                            !.state = "Stopped"]

\* NMOSNode::Impl::enable_registration
NodeEnableRegistration(registry_url) ==
    /\ NodeCall
    /\ LET n == [node EXCEPT !.calls = @ + 1, !.registry_url = registry_url,
                             !.last = "enable_registration", !.result = TRUE]
       IN  node' = IF n.state = "Running" /\ ~n.registered
                   THEN register_with_registry(n) ELSE n

\* NMOSNode::Impl::disable_registration
NodeDisableRegistration ==
    /\ NodeCall
    /\ node' = [node EXCEPT !.calls = @ + 1, !.registered = FALSE,
                            !.registry_url = "", !.last = "disable_registration", !.result = TRUE]

NodeNext ==
    \/ \E http_ok \in BOOLEAN : NodeStart(http_ok) /\ UNCHANGED unextended
    \/ NodeStop /\ UNCHANGED unextended
    \/ \E registry_url \in RegistryUrls :
          NodeEnableRegistration(registry_url) /\ UNCHANGED unextended
    \/ NodeDisableRegistration /\ UNCHANGED unextended

----------------------------------------------------------------------------
(* NMOSNode::Impl: the resource maps and resources_mutex_ *)

\* calls made on the node's resources per run
MaxMtxCalls == 4

\* the threads that call into the node: the application's main thread, a
\* controller thread using the connection interface, the HTTP server thread
MtxThreads == {"app", "controller", "http"}

\* what each of them calls
ThreadOps ==
    [app |-> {"register_sender", "unregister_sender", "register_receiver",
              "unregister_receiver", "get_senders", "get_receivers"},
     controller |-> {"stage_connection", "activate_connection", "connect_to_sender",
                     "disconnect_receiver", "get_staged_params", "get_active_params"},
     http |-> {"generate_senders_json", "generate_receivers_json"}]

\* the functions that begin with std::lock_guard<std::mutex> lock(resources_mutex_),
\* the two JSON generators of the HTTP handlers left out
TakesLock_NotInHandlers(op) ==
    op \notin {"generate_senders_json", "generate_receivers_json"}

\* the functions that begin with std::lock_guard<std::mutex> lock(resources_mutex_):
\* every function that touches senders_, receivers_, staged_params_ or active_params_
TakesLock(op) ==
    op \in {"register_sender", "unregister_sender", "register_receiver",
            "unregister_receiver", "get_senders", "get_receivers",
            "connect_to_sender", "disconnect_receiver", "get_staged_params",
            "get_active_params", "stage_connection", "activate_connection",
            "generate_senders_json", "generate_receivers_json"}

\* the mutex is free, no thread is inside the node, the maps are empty.  pc is
\* "idle" (outside the node), "waiting" (called, at the lock_guard) or
\* "inside" (in the function's body); maps holds the keys of the four maps.
MtxFree ==
    [owner |-> "none", pc |-> [t \in MtxThreads |-> "idle"],
     op |-> [t \in MtxThreads |-> "none"],
     maps |-> [senders |-> {}, receivers |-> {}, staged |-> {}, active |-> {}],
     calls |-> 0]

\* what the body of op does to the maps; the node knows one sender, s1, and
\* one receiver, r1, whose connect and start succeed
MapEffect(maps, op) ==
    CASE op = "register_sender" -> [maps EXCEPT !.senders = @ \cup {"s1"}]
      [] op = "unregister_sender" -> [maps EXCEPT !.senders = @ \ {"s1"}]
      [] op = "register_receiver" -> [maps EXCEPT !.receivers = @ \cup {"r1"}]
      [] op = "unregister_receiver" -> [maps EXCEPT !.receivers = @ \ {"r1"}]
      [] op = "stage_connection" -> [maps EXCEPT !.staged = @ \cup {"r1"}]
      [] op = "activate_connection" ->
            IF "r1" \in maps.staged /\ "r1" \in maps.receivers
            THEN [maps EXCEPT !.active = @ \cup {"r1"}] ELSE maps
      [] OTHER -> maps

\* thread t calls op and arrives at its first statement
MtxCall(t, op) ==
    /\ mtx.pc[t] = "idle"
    /\ mtx.calls < MaxMtxCalls
    /\ mtx' = [mtx EXCEPT !.pc[t] = "waiting", !.op[t] = op, !.calls = @ + 1]
    /\ UNCHANGED <<node, cb_loop, thr>>

\* the lock_guard's constructor returns: the mutex was free and is now t's;
\* a function without lock_guard goes on at once
MtxAcquire(t) ==
    /\ mtx.pc[t] = "waiting"
    /\ IF TakesLock(mtx.op[t])
       THEN /\ mtx.owner = "none"
            /\ mtx' = [mtx EXCEPT !.pc[t] = "inside", !.owner = t]
       ELSE mtx' = [mtx EXCEPT !.pc[t] = "inside"]
    /\ UNCHANGED <<node, cb_loop, thr>>

\* the body runs on the maps and the function returns, its lock_guard
\* releasing the mutex
MtxReturn(t) ==
    /\ mtx.pc[t] = "inside"
    /\ mtx' = [mtx EXCEPT !.pc[t] = "idle",
                          !.maps = MapEffect(@, mtx.op[t]),
                          !.owner = IF @ = t THEN "none" ELSE @]
    /\ UNCHANGED <<node, cb_loop, thr>>

MtxNext ==
    \/ \E t \in MtxThreads : \E op \in ThreadOps[t] :
          MtxCall(t, op) /\ UNCHANGED unextended
    \/ \E t \in MtxThreads : MtxAcquire(t) /\ UNCHANGED unextended
    \/ \E t \in MtxThreads : MtxReturn(t) /\ UNCHANGED unextended

----------------------------------------------------------------------------
(* AES67Receiver::Impl: stop() against the running threads *)

\* no thread has been created and no stop() is in progress.  receive and
\* playout are "none", "test" (at the while test), "body" (inside the loop)
\* or "exited"; stop is "idle", "join_receive", "join_playout" or "returned".
ThrNone == [receive |-> "none", playout |-> "none", stop |-> "idle"]

\* the loops' test with the flag left out: while (true)
thread_loop_continues_Forever(e) == TRUE

\* receive_loop and playout_loop: while (running_)
thread_loop_continues(e) == e.running

\* what the thread actions leave alone besides the receiver and its buffer
not_threads == <<sender_side, nmos_vars, node, mtx, cb_loop>>

\* receive_loop at its while test
ReceiveThreadTest ==
    /\ thr.receive = "test"
    /\ thr' = [thr EXCEPT !.receive = IF thread_loop_continues(rx)
                                      THEN "body" ELSE "exited"]
    /\ UNCHANGED <<jb_vars, rx_vars, not_threads>>

\* receive_loop's body: poll returns within its 100 ms, either with nothing
\* (continue) or with a datagram that recv hands to process_rtp_packet
ReceiveThreadBody ==
    /\ thr.receive = "body"
    /\ thr' = [thr EXCEPT !.receive = "test"]
    /\ \/ UNCHANGED <<jb_vars, rx_vars>>
       \/ /\ net # <<>>
          /\ process_rtp_packet(Head(net))
          /\ net' = Tail(net)
          /\ UNCHANGED <<rx, calls>>
    /\ UNCHANGED not_threads

\* playout_loop at its while test
PlayoutThreadTest ==
    /\ thr.playout = "test"
    /\ thr' = [thr EXCEPT !.playout = IF thread_loop_continues(rx)
                                      THEN "body" ELSE "exited"]
    /\ UNCHANGED <<jb_vars, rx_vars, not_threads>>

\* playout_loop's body: a pop that succeeds is written to the sink, whose
\* write appends to a buffer and returns; a pop that fails is followed by
\* 500 us of sleep
PlayoutThreadBody ==
    /\ thr.playout = "body"
    /\ thr' = [thr EXCEPT !.playout = "test"]
    /\ IF PopPermitted(jb_packets, jb_config, now)
       THEN JitterBufferPop(PlayoutBufferSize)
       ELSE UNCHANGED jb_vars
    /\ UNCHANGED <<rx_vars, not_threads>>

\* stop() up to its first join: the state test and running_ = false
StopBegin ==
    /\ thr.stop = "idle"
    /\ ControlCall
    /\ last_op' = OpRecord("stop", "", TRUE, "", FALSE, FALSE)
    /\ IF rx.state # "Receiving"
       THEN /\ thr' = [thr EXCEPT !.stop = "returned"]
            /\ UNCHANGED rx
       ELSE /\ thr' = [thr EXCEPT !.stop = "join_receive"]
            /\ rx' = [rx EXCEPT !.running = FALSE]
    /\ UNCHANGED <<jb_vars, rx_stats, rx_last, net, rx_seen, rx_step, sender_side,
                   nmos_receiver_objects, nmos_staged, nmos_active, node, mtx, cb_loop>>

\* receive_thread_.join() returns once the receive thread has exited
StopJoinReceive ==
    /\ thr.stop = "join_receive"
    /\ thr.receive = "exited"
    /\ thr' = [thr EXCEPT !.stop = "join_playout"]
    /\ UNCHANGED <<jb_vars, rx_vars, not_threads>>

\* playout_thread_.join() returns once the playout thread has exited; then
\* audio_sink_->stop(), jitter_buffer_->reset(), state_ = Listening
StopJoinPlayout ==
    /\ thr.stop = "join_playout"
    /\ thr.playout = "exited"
    /\ thr' = [thr EXCEPT !.stop = "returned"]
    /\ JitterBufferReset
    /\ rx' = [rx EXCEPT !.threads = 0, !.state = "Listening",
                        !.trail = Append(@, "Listening")]
    /\ UNCHANGED <<rx_stats, rx_last, net, rx_seen, rx_step, calls, not_threads>>

CancelNext ==
    \/ ReceiveThreadTest
    \/ ReceiveThreadBody
    \/ PlayoutThreadTest
    \/ PlayoutThreadBody
    \/ StopBegin
    \/ StopJoinReceive
    \/ StopJoinPlayout
    \/ Tick /\ UNCHANGED not_jb

----------------------------------------------------------------------------
(* Sender configuration: SenderConfig defaults *)

\* node, mtx, cb_loop and thr as construction leaves them
ExtIdle ==
    /\ node = NodeFresh
    /\ mtx = MtxFree
    /\ cb_loop = CbLoopIdle([sample_rate |-> 48000, packet_time_us |-> 1000,
                             channels |-> 2, bit_depth |-> 24])
    /\ thr = ThrNone


sample_rate == 48000
packet_time_us == 1000
channels == 2
bit_depth == 24

\* AudioFormat::bytes_per_frame
bytes_per_frame == (bit_depth \div 8) * channels

\* on_audio_data: samples and bytes per packet
samples_per_packet == (sample_rate * packet_time_us) \div 1000000
bytes_per_packet == samples_per_packet * bytes_per_frame

\* sizes of the buffers the audio source delivers (bytes)
BufferSizes == {0, bytes_per_packet, 2 * bytes_per_packet + 100}

\* advance of the PTP-derived RTP clock between two audio callbacks (samples):
\* one or two packet times, or a sample short of one (scheduling jitter)
ClockSteps == {samples_per_packet - 1, samples_per_packet, 2 * samples_per_packet}

\* readings of the PTP-derived RTP clock when the sender is constructed
ClockStarts == {U32(0), <<Mod16 - 1, Mod16 - samples_per_packet>>}

\* packets already numbered by the sequence counter when the run begins:
\* none (fresh object), or just short of the 16-bit wrap
SequenceStarts == {0, Mod16 - 2}

\* what a callback takes from the run's budget: one unit per packet it carries,
\* and one for a callback that carries none
CallbackCost(size) ==
    IF size < bytes_per_packet THEN 1 ELSE size \div bytes_per_packet

\* the callback thread outside on_audio_data.  size, sequence0, packets0 and
\* sent are history: the buffer size of the latest callback, sequence_number
\* and packets_sent as it found them, and the sends that sendto accepted.
CbIdle == [pc |-> "idle", remaining |-> 0, rtp_timestamp |-> U32(0),
           size |-> 0, sequence0 |-> 0, packets0 |-> 0, sent |-> 0]

\* no stop() has returned since the sender was last started
NotStopped == [valid |-> FALSE, sequence_number |-> 0, rtp_timestamp |-> U32(0),
               wire_length |-> 0]

SenderInit ==
    /\ snd_initialized = FALSE
    /\ snd_running = FALSE
    /\ snd_state = "Stopped"
    /\ snd_socket = FALSE
    /\ \E s0 \in SequenceStarts :
         /\ snd_stats = [sequence_number |-> s0, rtp_timestamp |-> U32(0),
                         packets_sent |-> 0, bytes_sent |-> 0, underruns |-> 0]
         /\ snd_cb = [CbIdle EXCEPT !.sequence0 = s0]
    /\ ptp_synchronized \in BOOLEAN
    /\ ptp_clock \in ClockStarts
    /\ wire = <<>>
    /\ snd_budget = MaxWire
    /\ snd_at_stop = NotStopped
    /\ ptp_conv = PtpConvIdle
    /\ sdp_trip = SdpTripIdle
    /\ ExtIdle
    /\ JitterBufferIdle
    /\ ReceiverIdle
    /\ NmosIdle

\* a sender that is constructed and never used
SenderIdle ==
    /\ snd_initialized = FALSE
    /\ snd_running = FALSE
    /\ snd_state = "Stopped"
    /\ snd_socket = FALSE
    /\ snd_stats = [sequence_number |-> 0, rtp_timestamp |-> U32(0),
                    packets_sent |-> 0, bytes_sent |-> 0, underruns |-> 0]
    /\ snd_cb = CbIdle
    /\ ptp_synchronized = FALSE
    /\ ptp_clock = U32(0)
    /\ wire = <<>>
    /\ snd_budget = 0
    /\ snd_at_stop = NotStopped

\* AES67Sender::Impl::start; init_ok is the result of initialize() (the audio
\* source's initialize/open), socket_ok the result of socket()
SenderStart(init_ok, socket_ok) ==
    /\ snd_state # "Running"
    /\ IF ~snd_initialized /\ ~init_ok
       THEN UNCHANGED <<snd_initialized, snd_socket, snd_running, snd_state, wire,
                        snd_at_stop>>
       ELSE /\ snd_initialized' = TRUE
            /\ IF socket_ok
               THEN /\ snd_socket' = TRUE
                    /\ snd_running' = TRUE
                    /\ snd_state' = "Running"
                    /\ wire' = <<>>
                    /\ snd_at_stop' = NotStopped
               ELSE UNCHANGED <<snd_socket, snd_running, snd_state, wire,
                                snd_at_stop>>
    /\ UNCHANGED <<snd_stats, snd_cb, ptp_synchronized, ptp_clock, snd_budget>>
    /\ UNCHANGED not_snd

\* AES67Sender::Impl::stop
SenderStop ==
    /\ snd_state = "Running"
    /\ snd_running' = FALSE
    /\ snd_socket' = FALSE
    /\ snd_state' = "Stopped"
    /\ snd_at_stop' = [valid |-> TRUE,
                       sequence_number |-> snd_stats.sequence_number,
                       rtp_timestamp |-> snd_stats.rtp_timestamp,
                       wire_length |-> Len(wire)]
    /\ UNCHANGED <<snd_initialized, snd_stats, snd_cb, ptp_synchronized,
                   ptp_clock, wire, snd_budget>>
    /\ UNCHANGED not_snd

\* on_audio_data, entry: the running_ test and the choice of the base timestamp.
\* elapsed is the advance of the PTP-derived RTP clock since the previous callback.
OnAudioDataEnter(size, elapsed) ==
    /\ snd_cb.pc = "idle"
    /\ ptp_clock' = Add32(ptp_clock, elapsed)
    /\ CallbackCost(size) <= snd_budget
    /\ snd_budget' = snd_budget - CallbackCost(size)
    /\ IF ~snd_running
       THEN UNCHANGED snd_cb
       ELSE snd_cb' = [pc |-> "loop", remaining |-> size,
                       rtp_timestamp |-> IF ptp_synchronized
                                         THEN ptp_clock'
                                         ELSE snd_stats.rtp_timestamp,
                       size |-> size,
                       sequence0 |-> snd_stats.sequence_number,
                       packets0 |-> snd_stats.packets_sent,
                       sent |-> 0]
    /\ UNCHANGED <<snd_initialized, snd_running, snd_state, snd_socket, snd_stats,
                   ptp_synchronized, wire, snd_at_stop>>
    /\ UNCHANGED not_snd

\* send_rtp_packet counting every call as a packet sent
send_rtp_packet_CountsAttempts(timestamp, sent_ok) ==
    /\ snd_stats' =
         [snd_stats EXCEPT
            !.sequence_number = @ + 1,
            !.packets_sent = @ + 1,
            !.bytes_sent = @ + RTPHeaderSize + bytes_per_packet]
    /\ wire' = IF snd_socket /\ sent_ok
               THEN Append(wire, [seq |-> U16(snd_stats.sequence_number),
                                  ts |-> timestamp])
               ELSE wire

\* send_rtp_packet: the header takes the next sequence number whatever sendto does
send_rtp_packet(timestamp, sent_ok) ==
    /\ snd_stats' =
         [snd_stats EXCEPT
            !.sequence_number = @ + 1,
            !.packets_sent = IF snd_socket /\ sent_ok THEN @ + 1 ELSE @,
            !.bytes_sent = IF snd_socket /\ sent_ok
                           THEN @ + RTPHeaderSize + bytes_per_packet ELSE @]
    /\ wire' = IF snd_socket /\ sent_ok
               THEN Append(wire, [seq |-> U16(snd_stats.sequence_number),
                                  ts |-> timestamp])
               ELSE wire

\* on_audio_data, one turn of the packet loop; sent_ok is sendto(...) > 0
OnAudioDataSend(sent_ok) ==
    /\ snd_cb.pc = "loop"
    /\ snd_cb.remaining >= bytes_per_packet
    /\ send_rtp_packet(snd_cb.rtp_timestamp, sent_ok)
    /\ snd_cb' = [snd_cb EXCEPT
                    !.remaining = @ - bytes_per_packet,
                    !.rtp_timestamp = Add32(@, samples_per_packet),
                    !.sent = IF snd_socket /\ sent_ok THEN @ + 1 ELSE @]
    /\ UNCHANGED <<snd_initialized, snd_running, snd_state, snd_socket,
                   ptp_synchronized, ptp_clock, snd_budget, snd_at_stop>>
    /\ UNCHANGED not_snd

\* on_audio_data, after the loop: the residual is dropped, the counter is stored
OnAudioDataExit ==
    /\ snd_cb.pc = "loop"
    /\ snd_cb.remaining < bytes_per_packet
    /\ snd_stats' = [snd_stats EXCEPT !.rtp_timestamp = snd_cb.rtp_timestamp]
    /\ snd_cb' = [snd_cb EXCEPT !.pc = "idle"]
    /\ UNCHANGED <<snd_initialized, snd_running, snd_state, snd_socket,
                   ptp_synchronized, ptp_clock, wire, snd_budget, snd_at_stop>>
    /\ UNCHANGED not_snd

\* the PTP monitor thread changes the synchronization state
PtpStateChange ==
    /\ ptp_synchronized' = ~ptp_synchronized
    /\ UNCHANGED <<snd_initialized, snd_running, snd_state, snd_socket, snd_stats,
                   snd_cb, ptp_clock, wire, snd_budget, snd_at_stop>>
    /\ UNCHANGED not_snd

SenderNext ==
    \/ \E init_ok, socket_ok \in BOOLEAN : SenderStart(init_ok, socket_ok)
    \/ SenderStop
    \/ \E size \in BufferSizes, elapsed \in ClockSteps : OnAudioDataEnter(size, elapsed)
    \/ \E ok \in BOOLEAN : OnAudioDataSend(ok)
    \/ OnAudioDataExit
    \/ PtpStateChange

SpecSender == SenderInit /\ [][SenderNext]_vars

\* the jitter buffer alone, driven through its public interface
JbInit ==
    /\ JitterBufferIdle
    /\ SenderIdle
    /\ ptp_conv = PtpConvIdle
    /\ sdp_trip = SdpTripIdle
    /\ ExtIdle
    /\ ReceiverIdle
    /\ NmosIdle

SpecJitterBuffer == JbInit /\ [][JbNext]_vars

\* the jitter buffer fed a stream one second old (timestamps 48000 and 48048)
\* and a straggler from the stream's first millisecond (timestamp 0)
JbLateInputs ==
    { [data |-> Payload("s", 288), sequence |-> 0,    timestamp |-> U32(0)],
      [data |-> Payload("p", 288), sequence |-> 1000, timestamp |-> U32(1000 * 48)],
      [data |-> Payload("q", 288), sequence |-> 1001, timestamp |-> U32(1001 * 48)] }

JbLateNext ==
    \/ /\ Len(jb_pushed) < MaxPush
       /\ \E p \in JbLateInputs : JitterBufferPush(p.data, p.sequence, p.timestamp)
       /\ UNCHANGED not_jb
    \/ /\ JitterBufferPop(PlayoutBufferSize)
       /\ UNCHANGED not_jb
    \/ /\ jb_pushed # <<>>
       /\ JitterBufferReset
       /\ UNCHANGED not_jb
    \/ Tick /\ UNCHANGED not_jb

SpecJitterLate == JbInit /\ [][JbLateNext]_vars

----------------------------------------------------------------------------
(* The receive path: a connected, started receiver fed from the network *)

\* sequence numbers around the points where the loss check changes its answer
SeqValues == {0, 1, 2, 3, Half16, Half16 + 1, Mod16 - 2, Mod16 - 1}

\* datagrams that process_rtp_packet must drop, followed by good ones: a wrong
\* version, a datagram shorter than the header, an extension running past the
\* end, a datagram that ends inside the extension's first word, one that ends
\* with its header
MalformedScript ==
    << [Datagram(7) EXCEPT !.v = 1],
       [Datagram(8) EXCEPT !.size = 8],
       [Datagram(9) EXCEPT !.x = 1, !.ext_length = 100],
       [Datagram(12) EXCEPT !.x = 1, !.size = RTPHeaderSize + 2],
       [Datagram(13) EXCEPT !.cc = 2, !.size = RTPHeaderSize + 8],
       [Datagram(10) EXCEPT !.cc = 1, !.x = 1, !.ext_length = 1],
       Datagram(11) >>

\* a stream in which one datagram carries 100 payload bytes, which is neither
\* the 288 bytes of a packet time nor a whole number of 6-byte frames
MismatchScript ==
    << Datagram(0), [Datagram(1) EXCEPT !.size = RTPHeaderSize + 100], Datagram(2) >>

\* a 48 kHz stream of 64 channels of L24: 48 samples x 64 x 3 = 9216 payload
\* bytes in each datagram
JumboScript ==
    << [Datagram(0) EXCEPT !.size = RTPHeaderSize + 9216],
       [Datagram(1) EXCEPT !.size = RTPHeaderSize + 9216],
       [Datagram(2) EXCEPT !.size = RTPHeaderSize + 9216] >>

\* the arrival orders the network produces in a run
Scripts ==
    { <<Datagram(a), Datagram(b)>> : a \in SeqValues, b \in SeqValues }
    \cup { <<Datagram(0), Datagram(1), Datagram(3), Datagram(4)>>,
           <<Datagram(Mod16 - 2), Datagram(Mod16 - 1), Datagram(0), Datagram(1)>>,
           <<Datagram(0), Datagram(1), Datagram(3), Datagram(2), Datagram(4),
             Datagram(5), Datagram(6), Datagram(7), Datagram(8), Datagram(9)>>,
           MalformedScript, MismatchScript, JumboScript }

\* the stream address the application connects to
StreamIp == "239.69.1.1"
StreamPort == 5004

ReceiveInit ==
    /\ SenderIdle
    /\ ptp_conv = PtpConvIdle
    /\ sdp_trip = SdpTripIdle
    /\ ExtIdle
    /\ jb_config = ReceiverJbConfig
    /\ jb_packets = <<>>
    /\ now = 0
    /\ jb_pushed = <<>>
    /\ jb_popped = <<>>
    /\ jb_late_push = FALSE
    /\ rx = RxFresh
    /\ rx_stats = RxStatsZero
    /\ rx_last = [sequence |-> 0, valid |-> FALSE]
    /\ net \in Scripts
    /\ rx_seen = <<>>
    /\ rx_step = RxStepNone
    /\ calls = 0
    /\ NmosIdle

\* the group join succeeds on the network these runs are made on
ReceiveNext ==
    \/ \E socket_ok, bind_ok \in BOOLEAN :
          ReceiverConnect(StreamIp, StreamPort, socket_ok, bind_ok, TRUE)
    \/ \E sink_ok \in BOOLEAN : ReceiverStart(sink_ok)
    \/ ReceiverStop
    \/ \E sink_ok \in BOOLEAN : ReceiverRecover(sink_ok)
    \/ ReceiveLoop
    \/ PlayoutLoop
    \/ Tick /\ UNCHANGED not_jb

SpecReceive == ReceiveInit /\ [][ReceiveNext]_vars

----------------------------------------------------------------------------
(* The PTP-to-RTP timestamp conversion applied to one reading of the clock *)

PtpInit ==
    /\ SenderIdle
    /\ sdp_trip = SdpTripIdle
    /\ ExtIdle
    /\ JitterBufferIdle
    /\ ReceiverIdle
    /\ NmosIdle
    /\ \E seconds \in PtpSeconds, nanos \in PtpNanos, sr \in SampleRates :
          ptp_conv = [PtpConvIdle EXCEPT !.seconds = seconds, !.nanos = nanos,
                                         !.sample_rate = sr]

PtpNext == PtpToRtpTimestamp

SpecPtp == PtpInit /\ [][PtpNext]_vars

----------------------------------------------------------------------------
(* The SDP round trip: generate, parse, generate from the parsed fields, parse *)

SdpInit ==
    /\ ExtIdle
    /\ SenderIdle
    /\ ptp_conv = PtpConvIdle
    /\ JitterBufferIdle
    /\ ReceiverIdle
    /\ NmosIdle
    /\ \E in \in SdpInputs : sdp_trip = [SdpTripIdle EXCEPT !.stage = "input",
                                                            !.input = in]

SdpNext == SdpGenerateParse \/ SdpRegenerateParse

SpecSdp == SdpInit /\ [][SdpNext]_vars

----------------------------------------------------------------------------
(* The receive path at the jitter buffer's capacity: the stream keeps arriving
   while the playout thread takes nothing out *)

\* how far below max_packets the buffer stands when a run begins
MaxHeadroom == 30

\* the packets still on their way when a run begins
OverflowBurst == 2

\* the engine after connect(StreamIp, StreamPort, format) and start()
ReceivingEngine ==
    start([connect(RxFresh, StreamIp, StreamPort, TRUE, TRUE, TRUE).e
             EXCEPT !.trail = <<>>], TRUE).e

\* the receiver after process_rtp_packet took the stream's first n datagrams,
\* Datagram(0) .. Datagram(n - 1), and no pop succeeded
OverflowInit ==
    /\ SenderIdle
    /\ ptp_conv = PtpConvIdle
    /\ sdp_trip = SdpTripIdle
    /\ ExtIdle
    /\ NmosIdle
    /\ jb_config = ReceiverJbConfig
    /\ now = 0
    /\ jb_popped = <<>>
    /\ jb_late_push = FALSE
    /\ rx = ReceivingEngine
    /\ calls = 2
    /\ \E n \in (DefaultMaxPackets - MaxHeadroom)..DefaultMaxPackets :
          /\ jb_packets = [i \in 1..n |->
                             [data |-> Payload(i - 1, 288), sequence |-> i - 1,
                              timestamp |-> U32((i - 1) * 48), arrival_time |-> 0]]
          /\ jb_pushed = jb_packets
          /\ rx_stats = [RxStatsZero EXCEPT
                            !.packets_received = n,
                            !.bytes_received = n * Datagram(0).size,
                            !.last_sequence_number = n - 1,
                            !.last_rtp_timestamp = U32((n - 1) * 48)]
          /\ rx_last = [sequence |-> n - 1, valid |-> TRUE]
          /\ rx_seen = [i \in 1..n |-> i - 1]
          /\ rx_step = [accepted |-> TRUE, had_prev |-> TRUE, prev |-> n - 2,
                        sequence |-> n - 1, lost_before |-> 0,
                        out_of_order_before |-> 0]
          /\ net = [i \in 1..OverflowBurst |-> Datagram(n + i - 1)]

OverflowNext ==
    \/ ReceiveLoop
    \/ Tick /\ UNCHANGED not_jb

SpecOverflow == OverflowInit /\ [][OverflowNext]_vars

----------------------------------------------------------------------------
(* The receiver engine driven through its public interface, no stream arriving *)

\* the addresses and ports the application connects to
EngineSources == {StreamIp, "192.168.1.10"}
EnginePorts == {StreamPort, 0}

EngineInit ==
    /\ SenderIdle
    /\ ptp_conv = PtpConvIdle
    /\ sdp_trip = SdpTripIdle
    /\ ExtIdle
    /\ jb_config = ReceiverJbConfig
    /\ jb_packets = <<>>
    /\ now = 0
    /\ jb_pushed = <<>>
    /\ jb_popped = <<>>
    /\ jb_late_push = FALSE
    /\ ReceiverIdle
    /\ NmosIdle

EngineNext ==
    \/ \E source_ip \in EngineSources, port \in EnginePorts,
          socket_ok, bind_ok, join_ok \in BOOLEAN :
          ReceiverConnect(source_ip, port, socket_ok, bind_ok, join_ok)
    \/ \E kind \in SdpOfferKinds, socket_ok, bind_ok, join_ok \in BOOLEAN :
          ReceiverConnectSdp(kind, socket_ok, bind_ok, join_ok)
    \/ \E sink_ok \in BOOLEAN : ReceiverStart(sink_ok)
    \/ ReceiverStop
    \/ ReceiverDisconnect
    \/ \E sink_ok \in BOOLEAN : ReceiverRecover(sink_ok)
    \/ \E elapsed_s \in HealthElapsed : ReceiverIsHealthy(elapsed_s)

SpecEngine == EngineInit /\ [][EngineNext]_vars

----------------------------------------------------------------------------
(* The control path: a controller drives the registered receiver over IS-05 *)

ControlInit ==
    /\ SenderIdle
    /\ ptp_conv = PtpConvIdle
    /\ sdp_trip = SdpTripIdle
    /\ ExtIdle
    /\ jb_config = ReceiverJbConfig
    /\ jb_packets = <<>>
    /\ now = 0
    /\ jb_pushed = <<>>
    /\ jb_popped = <<>>
    /\ jb_late_push = FALSE
    /\ ReceiverIdle
    /\ NmosIdle

ControlNext ==
    \/ \E id \in Ids, params \in ParamValues : StageConnection(id, params)
    \/ \E id \in Ids, socket_ok, bind_ok, join_ok, sink_ok \in BOOLEAN :
          ActivateConnection(id, socket_ok, bind_ok, join_ok, sink_ok)
    \/ \E id \in Ids, params \in ParamValues,
          socket_ok, bind_ok, join_ok, sink_ok \in BOOLEAN :
          ConnectToSender(id, params, socket_ok, bind_ok, join_ok, sink_ok)
    \/ \E id \in Ids : DisconnectReceiver(id)
    \/ \E method \in HttpMethods, path \in HttpPaths, params \in ParamValues,
          activation_mode \in ActivationModes :
          HandleHttpRequest(method, path, params, activation_mode)

SpecControl == ControlInit /\ [][ControlNext]_vars

----------------------------------------------------------------------------
(* The further components, each run on its own *)

\* the variables of the sender, the jitter buffer, the receiver and the
\* connection surface as construction leaves them
RestIdle ==
    /\ JitterBufferIdle
    /\ SenderIdle
    /\ ptp_conv = PtpConvIdle
    /\ sdp_trip = SdpTripIdle
    /\ ReceiverIdle
    /\ NmosIdle

\* a sender configured with one of the configurations and started
CallbackInit ==
    /\ RestIdle
    /\ node = NodeFresh
    /\ mtx = MtxFree
    /\ thr = ThrNone
    /\ \E config \in CallbackConfigs : cb_loop = CbLoopIdle(config)

SpecCallback == CallbackInit /\ [][CallbackNext]_vars

\* a node initialized with or without a registry URL in its NetworkConfig
NodeInit ==
    /\ RestIdle
    /\ mtx = MtxFree
    /\ thr = ThrNone
    /\ cb_loop = CbLoopIdle([sample_rate |-> 48000, packet_time_us |-> 1000,
                             channels |-> 2, bit_depth |-> 24])
    /\ \E registry_url \in RegistryUrls :
          node = [NodeFresh EXCEPT !.registry_url = registry_url]

SpecNode == NodeInit /\ [][NodeNext]_vars

\* a node with no resource registered and no call in progress
MtxInit ==
    /\ RestIdle
    /\ ExtIdle

SpecMutex == MtxInit /\ [][MtxNext]_vars

\* a receiver after connect and start, its two threads at their loops' tests,
\* with no stream, or with a stream of three or four datagrams arriving
CancelInit ==
    /\ SenderIdle
    /\ ptp_conv = PtpConvIdle
    /\ sdp_trip = SdpTripIdle
    /\ NmosIdle
    /\ node = NodeFresh
    /\ mtx = MtxFree
    /\ cb_loop = CbLoopIdle([sample_rate |-> 48000, packet_time_us |-> 1000,
                             channels |-> 2, bit_depth |-> 24])
    /\ thr = [receive |-> "test", playout |-> "test", stop |-> "idle"]
    /\ jb_config = ReceiverJbConfig
    /\ jb_packets = <<>>
    /\ now = 0
    /\ jb_pushed = <<>>
    /\ jb_popped = <<>>
    /\ jb_late_push = FALSE
    /\ rx = ReceivingEngine
    /\ rx_stats = RxStatsZero
    /\ rx_last = [sequence |-> 0, valid |-> FALSE]
    /\ net \in {<<>>, <<Datagram(0), Datagram(1), Datagram(2)>>,
                 <<Datagram(0), Datagram(1), Datagram(2), Datagram(3)>>}
    /\ rx_seen = <<>>
    /\ rx_step = RxStepNone
    /\ calls = 2

\* each thread that can take a step is scheduled in the end: poll returns
\* within its timeout, the sleep and the sink's write return, and a join
\* returns once the thread it waits for has exited
SpecCancel ==
    /\ CancelInit /\ [][CancelNext]_vars
    /\ WF_vars(ReceiveThreadTest) /\ WF_vars(ReceiveThreadBody)
    /\ WF_vars(PlayoutThreadTest) /\ WF_vars(PlayoutThreadBody)
    /\ WF_vars(StopJoinReceive) /\ WF_vars(StopJoinPlayout)

----------------------------------------------------------------------------
(* C1: within one sender session, any two emitted packets p before q have  *)
(* (q.seq - p.seq) mod 2^16 > 0 and (q.ts - p.ts) mod 2^32 equal to        *)
(* samples_per_packet times the number of packets emitted from p to q,     *)
(* across audio callbacks and in every PTP synchronization state.          *)
C1_SessionSequenceTimestampLaw ==
    \A i, j \in 1..Len(wire) :
        i < j =>
            /\ U16(wire[j].seq - wire[i].seq) > 0
            /\ Sub32(wire[j].ts, wire[i].ts) = U32(samples_per_packet * (j - i))

----------------------------------------------------------------------------
(* Timestamp order as the specification words it *)

\* a < b in the wrap-safe sense: (a - b) mod 2^32 >= 2^31
WrapLess(a, b) == Sub32(a, b)[1] >= Half16

\* a is older than b whichever way timestamp order is read: below it as a
\* plain number and before it in the wrap-safe sense
Older(a, b) == Less32(a, b) /\ WrapLess(a, b)

\* C2: for every interleaving of push and pop, successive successful pops
\* return timestamps in non-decreasing order: no popped packet is older than
\* a packet popped before it.
C2_PopsNeverGoBack ==
    \A i, j \in 1..Len(jb_popped) :
        i < j => ~Older(jb_popped[j].timestamp, jb_popped[i].timestamp)

\* C3: after N <= max_packets pushes followed by M successful pops, none of
\* them before the last push, the i-th popped packet carries the i-th smallest
\* pushed timestamp, the popped timestamps never decrease, and each popped
\* packet carries the payload that was pushed with its timestamp.
C3_PopsAreSortedPrefix ==
    (Len(jb_pushed) <= jb_config.max_packets /\ ~jb_late_push) =>
        \A i \in 1..Len(jb_popped) :
            LET t == jb_popped[i].timestamp
                N == Len(jb_pushed)
            IN  /\ Cardinality({j \in 1..N : Less32(jb_pushed[j].timestamp, t)}) <= i - 1
                /\ Cardinality({j \in 1..N : ~Less32(t, jb_pushed[j].timestamp)}) >= i
                /\ (i > 1 => ~Less32(t, jb_popped[i - 1].timestamp))
                /\ \E j \in 1..N : /\ jb_pushed[j].timestamp = t
                                   /\ jb_pushed[j].data = jb_popped[i].data

\* C4: insertion compares timestamps wrap-safely: of two buffered packets with
\* different timestamps the one placed first is the wrap-safe smaller, so a
\* stream crossing 2^32 - 1 -> 0 is popped in sending order.
C4_WrapSafePlacement ==
    /\ \A i, j \in 1..Len(jb_packets) :
          (i < j /\ jb_packets[i].timestamp # jb_packets[j].timestamp) =>
              WrapLess(jb_packets[i].timestamp, jb_packets[j].timestamp)
    /\ ~jb_late_push =>
          \A i, j \in 1..Len(jb_popped) :
              i < j => ~WrapLess(jb_popped[j].timestamp, jb_popped[i].timestamp)

\* C5: for every accepted RTP packet after the first, with
\* diff = (seq - prev - 1) mod 2^16, packets_lost grows by diff iff
\* 0 < diff < 2^15, packets_out_of_order grows by 1 iff diff read as a signed
\* 16-bit value is < -1, and otherwise neither changes; so {0,1,3,4} gives
\* packets_lost = 1 and 65534, 65535, 0, 1 counts no loss and no reorder.
C5_LossAccounting ==
    /\ (rx_step.accepted /\ rx_step.had_prev) =>
          LET diff == (rx_step.sequence - rx_step.prev - 1) % Mod16
              signed == IF diff >= Half16 THEN diff - Mod16 ELSE diff
          IN  /\ rx_stats.packets_lost - rx_step.lost_before =
                    (IF 0 < diff /\ diff < Half16 THEN diff ELSE 0)
              /\ rx_stats.packets_out_of_order - rx_step.out_of_order_before =
                    (IF signed < -1 THEN 1 ELSE 0)
    /\ rx_seen = <<0, 1, 3, 4>> => rx_stats.packets_lost = 1
    /\ rx_seen = <<Mod16 - 2, Mod16 - 1, 0, 1>> =>
          /\ rx_stats.packets_lost = 0
          /\ rx_stats.packets_out_of_order = 0

\* C5 witness: the stream 0, 1, 3, 4 has been accepted and one loss counted
C5_Witness ==
    /\ rx_seen = <<0, 1, 3, 4>>
    /\ rx_step.accepted /\ rx_step.had_prev
    /\ rx_stats.packets_lost = 1

\* C6: when every packet arrives once and one adjacent pair is swapped
\* (arrival order 0,1,3,2,4,...,9), playout yields the packets in order and the
\* statistics end with packets_out_of_order = 1 and packets_lost = 0.
C6_ReorderIsNotLoss ==
    rx_seen = <<0, 1, 3, 2, 4, 5, 6, 7, 8, 9>> =>
        /\ rx_stats.packets_out_of_order = 1
        /\ rx_stats.packets_lost = 0
        /\ \A i, j \in 1..Len(jb_popped) :
              i < j => jb_popped[i].data.tag < jb_popped[j].data.tag


----------------------------------------------------------------------------
(* C7: IS-05 two-phase commit.  For a registered receiver, an
   activate_connection(id) that reports success after stage_connection(id, P)
   makes get_active_params(id) equal to P and leaves the receiver Receiving,
   having passed through Listening, connected to P.multicast_ip (P.source_ip
   when multicast_ip is empty) and P.destination_port; and no other call
   changes the active parameters. *)
C7_TwoPhaseCommit ==
    /\ (last_op.name = "activate_connection" /\ last_op.success) =>
          /\ last_op.id \in nmos_receiver_objects
          /\ get_active_params(last_op.id) = last_op.params
          /\ rx.state = "Receiving"
          /\ rx.trail = <<"Listening", "Receiving">>
          /\ rx.connected
          /\ rx.source_ip = SourceOf(last_op.params)
          /\ rx.port = last_op.params.destination_port
    /\ (last_op.name # "activate_connection" \/ ~last_op.success) =>
          nmos_active = last_op.active_before

(* C8: when the restart performed by activate_connection fails (the receiver's
   connect or its start fails), the active parameters and the staged
   parameters are what they were before the call, and the response has
   success = false with a non-empty error message. *)
C8_FailedRestartLeavesActive ==
    (/\ last_op.name = "activate_connection"
     /\ last_op.returned
     /\ (last_op.connect_failed \/ last_op.start_failed)) =>
        /\ nmos_active = last_op.active_before
        /\ nmos_staged = last_op.staged_before
        /\ ~last_op.success
        /\ last_op.error_message # ""

(* C9: activate_connection on a receiver that is Receiving, with the socket,
   the bind and the audio sink all succeeding, leaves the receiver running in
   state Receiving with one pair of threads, its socket bound to the activated
   port, and no descriptor of the previous connection left open. *)
C9_ActivateRestartsRunningReceiver ==
    (/\ last_op.name = "activate_connection"
     /\ last_op.id \in nmos_receiver_objects
     /\ last_op.id \in DOMAIN last_op.staged_before
     /\ last_op.state_before = "Receiving"
     /\ ~last_op.connect_failed
     /\ (last_op.start_failed => ~last_op.returned)) =>
        /\ ~rx.terminated
        /\ rx.state = "Receiving"
        /\ rx.threads = 1
        /\ rx.socket_open
        /\ rx.socket_port = last_op.params.destination_port
        /\ rx.leaked = last_op.leaked_before

(* C10: for every registered receiver, get_active_params describes the
   connection in force in the engine: the active address and port are the
   source and port the engine is connected to, and the defaults when the
   engine is disconnected. *)
C10_ActiveReflectsEngine ==
    \A id \in nmos_receiver_objects :
        IF rx.connected
        THEN /\ SourceOf(get_active_params(id)) = rx.source_ip
             /\ get_active_params(id).destination_port = rx.port
        ELSE get_active_params(id) = DefaultParams


(* C11: a stage_connection or activate_connection that names a receiver id
   which is not registered reports failure and leaves the staged map, the
   active map and the receiver engine as they were. *)
C11_UnknownReceiverIsRefused ==
    (/\ last_op.name \in {"stage_connection", "activate_connection"}
     /\ last_op.id \notin nmos_receiver_objects) =>
        /\ ~last_op.success
        /\ nmos_staged = last_op.staged_before
        /\ nmos_active = last_op.active_before
        /\ [rx EXCEPT !.trail = <<>>] = last_op.engine_before

(* C12: an HTTP PATCH to the staged endpoint of a registered receiver is
   answered 200 with the body it carried, leaves the TransportParams of the
   body in the receiver's staged entry, and with activate_immediate also in
   its active entry, the receiver having gone Listening then Receiving. *)
C12_PatchStagesAndActivates ==
    (/\ last_op.name = "handle_http_request"
     /\ last_op.request.method = "PATCH"
     /\ \E id \in nmos_receiver_objects :
           last_op.request.path = ConnectionPath(id, "staged")) =>
        /\ last_op.response.status = 200
        /\ last_op.response.body = last_op.request.body
        /\ get_staged_params(last_op.id) = last_op.request.params
        /\ last_op.request.activation_mode = "activate_immediate" =>
              /\ get_active_params(last_op.id) = last_op.request.params
              /\ rx.state = "Receiving"
              /\ rx.trail = <<"Listening", "Receiving">>


(* C13: disconnect leaves the receiver in state Stopped, not connected, with
   its socket closed and no receive or playout thread running, and a second
   disconnect changes nothing. *)
C13_DisconnectStopsEverything ==
    (last_op.name = "disconnect_receiver" /\ last_op.success) =>
        /\ rx.state = "Stopped"
        /\ ~rx.connected
        /\ ~rx.socket_open
        /\ rx.threads = 0
        /\ ~rx.running
        /\ [disconnect([rx EXCEPT !.trail = <<>>]).e EXCEPT !.trail = <<>>]
              = [rx EXCEPT !.trail = <<>>]

(* C14: start on a receiver that is not connected returns false, starts no
   thread and leaves the engine as it was; start on a receiver that is
   Receiving returns true and leaves the engine, its threads included, as it
   was. *)
C14_StartNeedsConnect ==
    last_op.name = "start" =>
        /\ ~last_op.engine_before.connected =>
              /\ ~last_op.success
              /\ [rx EXCEPT !.trail = <<>>] = last_op.engine_before
        /\ (last_op.engine_before.connected
            /\ last_op.engine_before.state = "Receiving") =>
              /\ last_op.success
              /\ [rx EXCEPT !.trail = <<>>] = last_op.engine_before

\* C14 witness: start has been called on a receiver that is not connected
\* (an address was given to connect before); it returned false and no thread runs
C14_Witness ==
    /\ last_op.name = "start"
    /\ ~last_op.engine_before.connected
    /\ last_op.engine_before.source_ip # ""
    /\ ~last_op.success
    /\ rx.threads = 0

(* C15: is_healthy returns true exactly when the receiver is Stopped, or is
   Receiving and a packet arrived less than 5 seconds ago. *)
C15_HealthyIffStoppedOrFed ==
    last_op.name = "is_healthy" =>
        (last_op.success <=>
            \/ last_op.state_before = "Stopped"
            \/ (last_op.state_before = "Receiving" /\ last_op.elapsed_s < 5))


(* C20: a socket-setup failure aborts the start.  A receiver connect whose
   socket creation, bind or multicast-group join failed returns false and
   leaves the receiver neither newly connected nor in Listening; a sender is
   Running only with the socket its start created. *)
C20_SocketSetupFailureAborts ==
    /\ rx.group = "failed" => (~rx.connected /\ rx.state # "Listening")
    /\ (last_op.name = "connect" /\ last_op.connect_failed) =>
          /\ ~last_op.success
          /\ rx.connected = last_op.engine_before.connected
          /\ rx.state = last_op.engine_before.state
    /\ snd_state = "Running" => snd_socket


(* C19: a session given an invalid port (0) refuses to start: connect reports
   the error, and the receiver is never Receiving on such a configuration. *)
C19_InvalidConfigRefused ==
    /\ (last_op.name = "connect" /\ rx.port = 0) => ~last_op.success
    /\ rx.state = "Receiving" => rx.port \in 1..65535


(* C16: once stop() has returned the sender is Stopped with its socket closed,
   and until the next start() no packet is emitted and neither the sequence
   number nor the RTP timestamp counter advances, whatever an audio callback
   still in flight or delivered later does. *)
C16_StopQuiescesSender ==
    snd_at_stop.valid =>
        /\ snd_state = "Stopped"
        /\ ~snd_socket
        /\ Len(wire) = snd_at_stop.wire_length
        /\ snd_stats.sequence_number = snd_at_stop.sequence_number
        /\ snd_stats.rtp_timestamp = snd_at_stop.rtp_timestamp

(* C18: a callback delivered while Running with B bytes makes exactly
   floor(B / bytes_per_packet) packets (calls of send_rtp_packet, each taking
   one sequence number), the residual bytes are dropped and not
   carried into the next callback, and each packet that sendto accepted adds
   1 to packets_sent and 12 + bytes_per_packet to bytes_sent. *)
C18_Packetization ==
    /\ bytes_per_packet = ((((sample_rate * packet_time_us) \div 1000000)
                               * channels) * bit_depth) \div 8
    /\ snd_cb.pc = "loop" =>
          (snd_stats.sequence_number - snd_cb.sequence0) * bytes_per_packet
              + snd_cb.remaining = snd_cb.size
    /\ snd_cb.pc = "idle" =>
          /\ snd_stats.sequence_number - snd_cb.sequence0
                = snd_cb.size \div bytes_per_packet
          /\ snd_cb.remaining = snd_cb.size % bytes_per_packet
    /\ snd_stats.packets_sent - snd_cb.packets0 = snd_cb.sent
    /\ snd_stats.bytes_sent = (12 + bytes_per_packet) * snd_stats.packets_sent

\* C18 witness: a callback of two packets and 100 residual bytes has
\* completed, both packets were sent, and 600 bytes are counted
C18_Witness ==
    /\ snd_cb.pc = "idle"
    /\ snd_cb.size = 2 * bytes_per_packet + 100
    /\ snd_cb.remaining = 100
    /\ snd_cb.sent = 2
    /\ snd_stats.sequence_number - snd_cb.sequence0 = 2
    /\ snd_stats.bytes_sent = 600


(* C17: ptp_to_rtp_timestamp(ptp_ns, sr) equals floor(ptp_ns * sr / 10^9)
   mod 2^32 for every ptp_ns, present-day epoch values included, and every
   supported sample rate. *)
C17_ConversionIsExact ==
    ptp_conv.done =>
        ptp_conv.rtp_timestamp =
            ExactRtpTimestamp(Nanoseconds(ptp_conv.seconds, ptp_conv.nanos, 8),
                              ptp_conv.sample_rate)

(* C29: when sendto fails for a packet the sender adds one to underruns, does
   not send that packet again, stays Running, and adds nothing to
   packets_sent and bytes_sent for it.  Inside and after a callback the
   packets numbered since its entry are the ones sendto took plus the ones
   counted as underruns, and every packet on the wire has a number of its own. *)
C29_SendFailureIsAnUnderrun ==
    /\ snd_stats.underruns >=
           (snd_stats.sequence_number - snd_cb.sequence0) - snd_cb.sent
    /\ snd_stats.packets_sent - snd_cb.packets0 = snd_cb.sent
    /\ snd_stats.bytes_sent = (RTPHeaderSize + bytes_per_packet) * snd_stats.packets_sent
    /\ \A i, j \in 1..Len(wire) : i # j => wire[i].seq # wire[j].seq
    /\ snd_running => snd_state = "Running"

(* C30: an RTP packet whose payload size is not the one the receiver's format
   implies (sample rate x packet time x channels x bytes per sample) is
   dropped: it is not pushed into the jitter buffer and is not played out. *)
C30_MismatchedPayloadIsDropped ==
    /\ \A i \in 1..Len(jb_pushed) : jb_pushed[i].data.size = bytes_per_packet
    /\ \A i \in 1..Len(jb_popped) : jb_popped[i].data.size = bytes_per_packet

\* packets without its k-th element
RemoveAt(packets, k) == SubSeq(packets, 1, k - 1) \o SubSeq(packets, k + 1, Len(packets))

(* C23: after any sequence of push, pop and reset the buffer holds at most
   max_packets packets (get_level() is within [0, 1]), and a push onto a full
   buffer removes exactly one buffered packet, one whose timestamp no other
   buffered packet is below, and then inserts the new packet. *)
C23_BoundedWithEviction ==
    /\ [](Len(jb_packets) <= jb_config.max_packets)
    /\ [][(/\ Len(jb_pushed') = Len(jb_pushed) + 1
           /\ Len(jb_packets) >= jb_config.max_packets)
          => \E k \in 1..Len(jb_packets) :
                /\ \A i \in 1..Len(jb_packets) :
                      ~Less32(jb_packets[i].timestamp, jb_packets[k].timestamp)
                /\ \E pos \in 1..Len(jb_packets) :
                      jb_packets' = InsertAt(RemoveAt(jb_packets, k), pos,
                                             jb_pushed'[Len(jb_pushed')])]_vars

\* C23 witness: more packets were pushed than the buffer holds, none was
\* popped, and the buffer is full
C23_Witness ==
    /\ Len(jb_pushed) > jb_config.max_packets
    /\ jb_popped = <<>>
    /\ Len(jb_packets) = jb_config.max_packets

(* C24: at every reachable state the buffered packets are ordered by RTP
   timestamp, and packets with equal timestamps are in ascending order of
   sequence number. *)
C24_OrderedWithTieBreak ==
    \A i \in 1..(Len(jb_packets) - 1) :
        \/ Less32(jb_packets[i].timestamp, jb_packets[i + 1].timestamp)
        \/ /\ jb_packets[i].timestamp = jb_packets[i + 1].timestamp
           /\ jb_packets[i].sequence <= jb_packets[i + 1].sequence

(* C25: the first successful pop after construction or reset happens only
   when at least 3 packets are queued; 1 or 2 packets are never handed out
   by the first drain, however long they have waited. *)
C25_PrimingBeforeFirstPop ==
    [][(jb_popped = <<>> /\ Len(jb_popped') = 1)
       => Len(jb_packets) >= PrimingPackets]_vars

(* C26: every successful pop after the first one since construction or reset
   returns a head packet that has been in the buffer for at least
   min(target_delay_ms, min_delay_ms) milliseconds. *)
C26_PopsRespectPlayoutDelay ==
    [][(Len(jb_popped) >= 1 /\ Len(jb_popped') = Len(jb_popped) + 1)
       => now - jb_packets[1].arrival_time >=
              (IF jb_config.target_delay_ms < jb_config.min_delay_ms
               THEN jb_config.target_delay_ms ELSE jb_config.min_delay_ms)]_vars

(* C27: a push whose sequence number equals that of a buffered packet replaces
   that packet: the buffer never holds two packets with the same sequence
   number. *)
C27_DuplicateReplaces ==
    \A i, j \in 1..Len(jb_packets) :
        i # j => jb_packets[i].sequence # jb_packets[j].sequence

(* C28: a pushed packet whose RTP timestamp is before the last-popped
   timestamp by more than max_delay_ms * sample_rate / 1000 samples is dropped
   as late: once a packet has been popped, the buffer holds no packet that far
   behind it. *)
C28_LatePacketIsDropped ==
    jb_popped # <<>> =>
        \A i \in 1..Len(jb_packets) :
            LET behind == Sub32(jb_popped[Len(jb_popped)].timestamp,
                                jb_packets[i].timestamp)
            IN  ~(/\ behind[1] < Half16
                  /\ Less32(U32((jb_config.max_delay_ms * sample_rate) \div 1000),
                            behind))

(* C22: for every valid AudioFormat, multicast address, port, payload type,
   session name, session id and origin address, parsing the generated SDP
   gives an SDPInfo with is_valid true whose source IP, port, payload type,
   encoding, sample rate, channel count, bit depth, session name, session id
   and origin address are the generator's inputs; generating again from the
   parsed fields and parsing again gives the same fields. *)
C22_SdpRoundTrip ==
    /\ sdp_trip.stage \in {"parsed", "reparsed"} =>
          /\ sdp_trip.first.is_valid
          /\ sdp_trip.first.source_ip = sdp_trip.input.multicast_ip
          /\ sdp_trip.first.port = sdp_trip.input.port
          /\ sdp_trip.first.payload_type = sdp_trip.input.payload_type
          /\ sdp_trip.first.encoding =
                (CASE sdp_trip.input.format.bit_depth = 16 -> <<"L", "1", "6">>
                   [] sdp_trip.input.format.bit_depth = 24 -> <<"L", "2", "4">>
                   [] sdp_trip.input.format.bit_depth = 32 -> <<"L", "3", "2">>)
          /\ sdp_trip.first.format = sdp_trip.input.format
          /\ sdp_trip.first.session_name = sdp_trip.input.session_name
          /\ sdp_trip.first.session_id = Decimal(sdp_trip.input.session_id)
          /\ sdp_trip.first.origin_address = sdp_trip.input.origin_address
    /\ sdp_trip.stage = "reparsed" => sdp_trip.second = sdp_trip.first

\* C22 witness: a 16-bit, 64-channel, 96 kHz stream has been generated, parsed,
\* generated again and parsed again
C22_Witness ==
    /\ sdp_trip.stage = "reparsed"
    /\ sdp_trip.input.format = [sample_rate |-> 96000, channels |-> 64, bit_depth |-> 16]
    /\ sdp_trip.second.is_valid

(* C21: connect(sdp) with an SDP that has no c= line, and with one that has no
   a=rtpmap line, returns false, and the receiver does not become connected
   and does not enter Listening. *)
C21_IncompleteSdpIsRejected ==
    (last_op.name = "connect_sdp" /\ last_op.sdp \in {"no c=", "no a=rtpmap"}) =>
        /\ ~last_op.success
        /\ rx.connected => last_op.engine_before.connected
        /\ rx.state = "Listening" => last_op.engine_before.state = "Listening"

(* C31: every overflow of the receiver's jitter buffer is counted: a push that
   finds the buffer holding max_packets packets, and so evicts the oldest one,
   adds one to the overruns statistic that get_statistics() returns. *)
C31_EvictionsAreCounted ==
    [][(/\ Len(jb_pushed') = Len(jb_pushed) + 1
        /\ Len(jb_packets) >= jb_config.max_packets)
       => rx_stats'.overruns = rx_stats.overruns + 1]_vars

(* C32: process_rtp_packet drops, leaving the jitter buffer and every statistic
   as they were, each datagram that is shorter than 12 bytes, or whose version
   is not 2, or whose declared header length (12 + 4*cc, plus 4 + 4*ext_length
   when the extension bit is set) is not below the received length.  For every
   other datagram the payload pushed is the bytes that follow the declared
   header, and in no case is a byte beyond the received length read. *)
C32_MalformedDatagramsAreDropped ==
    [][(net # <<>> /\ net' = Tail(net)) =>
          LET d == Head(net)
              declared == 12 + 4 * d.cc
                          + (IF d.x = 1 THEN 4 + 4 * d.ext_length ELSE 0)
          IN  /\ ReadExtent(d) <= d.size
              /\ IF d.size < 12 \/ d.v # 2 \/ declared >= d.size
                 THEN UNCHANGED <<jb_packets, jb_pushed, jb_popped, rx_stats,
                                  rx_last, rx_seen>>
                 ELSE /\ Len(jb_pushed') = Len(jb_pushed) + 1
                      /\ jb_pushed'[Len(jb_pushed')].data =
                            [tag |-> d.tag, size |-> d.size - declared]
                      /\ jb_pushed'[Len(jb_pushed')].sequence = d.sequence
                      /\ rx_stats'.packets_received = rx_stats.packets_received + 1]_vars

\* C32 witness: the malformed datagrams have all been through
\* process_rtp_packet; the two well-formed ones were pushed, the one with a
\* CSRC and an extension word without the 24 bytes of its header
C32_Witness ==
    /\ net = <<>>
    /\ rx_seen = <<10, 11>>
    /\ rx_stats.packets_received = 2
    /\ \E i \in 1..Len(jb_pushed) :
          jb_pushed[i].data = [tag |-> 10, size |-> 300 - 24]

(* C35: over every sequence of connect, start, stop, disconnect and recover
   calls the receive and playout threads exist exactly when the state is
   Receiving; a connect made while the threads run leaves the state as it was;
   and no start creates a thread pair while an earlier pair is running. *)
C35_ThreadsIffReceiving ==
    /\ (rx.threads > 0) <=> (rx.state = "Receiving")
    /\ (last_op.name = "connect" /\ last_op.engine_before.threads > 0)
          => rx.state = last_op.state_before
    /\ rx.threads <= 1 /\ ~rx.terminated

(* C38: the receiver holds at most one open UDP socket, and holds it exactly
   when it is connected: a socket opened by connect is closed by disconnect or
   before a later connect opens another, and a connect that fails does not
   leave the receiver marked connected with no usable socket. *)
C38_OneSocketIffConnected ==
    /\ rx.leaked = 0
    /\ rx.socket_open <=> rx.connected

(* C37: loss accounting is per connection: the first RTP packet processed after
   a connect, a stop followed by start, or a recover (the first one accepted
   since the threads were started, the jitter buffer still being as stop's
   reset or the constructor left it) adds nothing to packets_lost and nothing
   to packets_out_of_order. *)
C37_FirstPacketIsNeverALoss ==
    [][(net # <<>> /\ net' = Tail(net) /\ jb_pushed = <<>>)
       => /\ rx_stats'.packets_lost = rx_stats.packets_lost
          /\ rx_stats'.packets_out_of_order = rx_stats.packets_out_of_order]_vars

(* C40: the playout path delivers every accepted payload in full: the bytes
   that a pop hands to the sink are the payload bytes that were pushed, for
   every payload size the receive path accepts (9216 bytes among them); no
   payload is cut short. *)
C40_PlayoutDeliversWholePayloads ==
    \A i \in 1..Len(jb_popped) :
        \E k \in 1..Len(jb_pushed) :
            /\ jb_pushed[k].timestamp = jb_popped[i].timestamp
            /\ jb_pushed[k].data = jb_popped[i].data

(* C36: every audio callback terminates: the packet loop of on_audio_data ends
   for every buffer size and every configuration configure() accepts, those
   with bytes_per_packet = 0 included.  The loop runs while
   remaining >= bytes_per_packet and changes nothing that the test reads but
   remaining, so it ends exactly if every turn leaves less in remaining than
   it found. *)
C36_PacketLoopTerminates ==
    [][(cb_loop.pc = "loop" /\ cb_loop'.pc = "loop" /\ cb_loop'.sent # cb_loop.sent)
       => cb_loop'.remaining < cb_loop.remaining]_vars

(* C39: from the return of a start() that gave true until stop() is called,
   is_running() gives true and the node has its one HTTP server thread on its
   one listening socket: a further start() starts no second server.  This
   holds as well when a registry URL is configured and when
   enable_registration() is called while the node runs. *)
C39_StartedNodeIsRunning ==
    node.started =>
        /\ is_running(node)
        /\ node.server_threads = 1 /\ node.server_fd /\ node.leaked = 0
        /\ ~node.terminated

(* C34: every read and every mutation of the sender map, the receiver map, the
   staged map and the active map is made by a thread that holds the one
   resources mutex, so that register/unregister, stage_connection,
   activate_connection, get_staged_params/get_active_params and the HTTP
   handlers run one at a time: a thread inside any of them owns the mutex,
   and no second thread is inside any of them. *)
C34_MapAccessHoldsTheMutex ==
    /\ \A t \in MtxThreads : mtx.pc[t] = "inside" => mtx.owner = t
    /\ Cardinality({t \in MtxThreads : mtx.pc[t] = "inside"}) <= 1

\* C34 witness: the HTTP thread is generating the receivers' JSON inside the
\* mutex while the controller waits at activate_connection's lock_guard and
\* the application waits at unregister_receiver's
C34_Witness ==
    /\ mtx.pc["http"] = "inside" /\ mtx.op["http"] = "generate_receivers_json"
    /\ mtx.pc["controller"] = "waiting" /\ mtx.op["controller"] = "activate_connection"
    /\ mtx.pc["app"] = "waiting" /\ mtx.op["app"] = "unregister_receiver"
    /\ mtx.maps.receivers = {"r1"}

(* C33: after stop() is called on a receiver that is Receiving, the receive
   thread and the playout thread each find the running flag cleared at their
   next poll or sleep boundary and exit, stop() returns, and the receiver is
   left Listening with an empty jitter buffer: stop() never blocks forever,
   whether or not packets keep arriving. *)
C33_StopTerminates ==
    (thr.stop = "join_receive")
       ~> (/\ thr.stop = "returned"
           /\ thr.receive = "exited" /\ thr.playout = "exited"
           /\ rx.state = "Listening" /\ rx.threads = 0
           /\ jb_packets = <<>>)

\* C33 witness: stop() has returned on a receiver that was Receiving, called
\* while the stream's datagrams were still arriving and the buffer held some
C33_Witness ==
    /\ thr.stop = "returned"
    /\ last_op.name = "stop" /\ last_op.state_before = "Receiving"
    /\ net # <<>>
    /\ rx_seen # <<>>
    /\ rx.state = "Listening" /\ jb_packets = <<>>

====
